---------------------------- MODULE Spec2Model ----------------------------
(***************************************************************************)
(* A model of djazzle: the expression model (columns.py, conditions.py),   *)
(* the table descriptor (table.py), the query builder and its SQL          *)
(* assembly (query.py), the connection adapter (connection.py) and the     *)
(* execution engine (query.py).                                            *)
(*                                                                         *)
(* SQL text is modelled as a sequence of tokens.  A token is a record      *)
(* [s, of]: s is the text of the token; for a placeholder (s = "%s") the   *)
(* field `of` remembers the value the placeholder was emitted for, so that *)
(* the alignment of placeholders and parameters can be stated.  Python     *)
(* objects are records with a field k that holds the Python type name.     *)
(***************************************************************************)
EXTENDS Integers, Sequences, FiniteSets, TLC

\* ------------------------------------------------------------------ bounds
MaxConds == 2
MaxJoins == 2
MaxOrder == 1
MaxRows == 2

\* ------------------------------------------------------- Python objects
None == [k |-> "NoneType"]
PyInt(x) == [k |-> "int", x |-> x]
PyStr(x) == [k |-> "str", x |-> x]
PyBool(x) == [k |-> "bool", x |-> x]
PyList(items) == [k |-> "list", items |-> items]
PyTuple(items) == [k |-> "tuple", items |-> items]
\* a dict keeps its insertion order: pairs is a sequence of <<key, value>>
\* pairs with pairwise distinct keys
PyDict(pairs) == [k |-> "dict", pairs |-> pairs]

IsNone(o) == o.k = "NoneType"

\* the classes a Python type is an instance of (bool is a subclass of int)
PyMRO(k) ==
    CASE k = "bool" -> {"bool", "int", "object"}
      [] OTHER -> {k, "object"}

\* isinstance(o, types) for a tuple of types given as a set of type names
IsInstance(o, types) == PyMRO(o.k) \cap types # {}

\* Python truthiness, as used by `if self._fields:` and `if not self._table`
Truthy(o) ==
    CASE o.k = "NoneType" -> FALSE
      [] o.k \in {"list", "tuple"} -> Len(o.items) > 0
      [] o.k = "dict" -> Len(o.pairs) > 0
      [] o.k = "bool" -> o.x = "True"
      [] o.k = "int" -> o.x # "0"
      [] o.k = "str" -> o.x # ""
      [] OTHER -> TRUE

\* dict.keys(), dict.get(key, None)
Keys(d) == [i \in 1..Len(d.pairs) |-> d.pairs[i][1]]
HasKey(d, key) == \E i \in 1..Len(d.pairs) : d.pairs[i][1] = key
Get(d, key) ==
    IF HasKey(d, key)
    THEN d.pairs[CHOOSE i \in 1..Len(d.pairs) : d.pairs[i][1] = key][2]
    ELSE None

\* ------------------------------------------------------------ SQL tokens
NoOwner == [k |-> "-"]
Tok(s) == [s |-> s, of |-> NoOwner]
Placeholder(v) == [s |-> "%s", of |-> v]
Quote(name) == "\"" \o name \o "\""

RECURSIVE Join(_, _)
\* sep.join(parts): parts is a sequence of token sequences
Join(sep, parts) ==
    IF Len(parts) = 0 THEN <<>>
    ELSE IF Len(parts) = 1 THEN parts[1]
    ELSE parts[1] \o <<sep>> \o Join(sep, Tail(parts))

RECURSIVE Flatten(_)
Flatten(parts) ==
    IF Len(parts) = 0 THEN <<>> ELSE parts[1] \o Flatten(Tail(parts))

\* the values the placeholders of a SQL text stand for, left to right
PlaceholdersOf(sql) ==
    LET RECURSIVE Scan(_)
        Scan(i) == IF i > Len(sql) THEN <<>>
                   ELSE IF sql[i].s = "%s" THEN <<sql[i].of>> \o Scan(i + 1)
                   ELSE Scan(i + 1)
    IN Scan(1)

HasToken(sql, s) == \E i \in 1..Len(sql) : sql[i].s = s
CountToken(sql, s) == Cardinality({i \in 1..Len(sql) : sql[i].s = s})

\* ------------------------------------------------------ host-ORM models
\* a field descriptor of the host ORM: logical name, physical column,
\* declared field class and nullability
Field(name, column, cls, null) ==
    [k |-> "Field", name |-> name, column |-> column, cls |-> cls,
     null |-> null]

\* the field classes a field class derives from (itself included)
FieldMRO(cls) ==
    CASE cls = "BigAutoField" -> {"BigAutoField", "BigIntegerField", "IntegerField"}
      [] cls = "EmailField" -> {"EmailField", "CharField"}
      [] cls = "OneToOneField" -> {"OneToOneField", "ForeignKey"}
      [] OTHER -> {cls}

User ==
    [name |-> "User", db_table |-> "tests_user",
     fields |-> << Field("id", "id", "BigAutoField", FALSE),
                   Field("name", "name", "CharField", FALSE),
                   Field("age", "age", "IntegerField", TRUE),
                   Field("email", "email", "EmailField", FALSE),
                   Field("username", "username", "CharField", FALSE),
                   Field("address", "address", "CharField", FALSE) >>]

Pet ==
    [name |-> "Pet", db_table |-> "tests_pet",
     fields |-> << Field("id", "id", "BigAutoField", FALSE),
                   Field("name", "name", "CharField", FALSE),
                   Field("species", "species", "CharField", FALSE),
                   Field("owner", "owner_id", "ForeignKey", FALSE) >>]

\* ------------------------------------------------------------ columns.py
Column(table_name, column_name, django_field) ==
    [k |-> "Column", table_name |-> table_name, column_name |-> column_name,
     django_field |-> django_field]

full_name(column) == Tok(Quote(column.column_name))

\* field_type_map, in the order of the dict literal
field_type_map ==
    << <<"CharField", {"str"}>>, <<"TextField", {"str"}>>,
       <<"EmailField", {"str"}>>, <<"URLField", {"str"}>>,
       <<"SlugField", {"str"}>>, <<"IntegerField", {"int"}>>,
       <<"BigIntegerField", {"int"}>>, <<"SmallIntegerField", {"int"}>>,
       <<"PositiveIntegerField", {"int"}>>,
       <<"PositiveBigIntegerField", {"int"}>>,
       <<"PositiveSmallIntegerField", {"int"}>>,
       <<"FloatField", {"float", "int"}>>, <<"DecimalField", {"float", "int"}>>,
       <<"BooleanField", {"bool"}>>, <<"DateField", {"str"}>>,
       <<"DateTimeField", {"str"}>>, <<"TimeField", {"str"}>>,
       <<"DurationField", {"str"}>>, <<"BinaryField", {"bytes"}>>,
       <<"UUIDField", {"str", "UUID"}>>,
       <<"JSONField", {"dict", "list", "str", "int", "float", "bool"}>>,
       <<"ForeignKey", {"int", "str", "UUID"}>>,
       <<"OneToOneField", {"int", "str", "UUID"}>> >>

\* valid types that leave the nullability of the field out
valid_types_IgnoresNull(column) ==
    IF IsNone(column.django_field) THEN {"object"}
    ELSE LET hits == {i \in 1..Len(field_type_map) :
                         field_type_map[i][1] \in FieldMRO(column.django_field.cls)}
         IN IF hits = {} THEN {"object"}
            ELSE field_type_map[CHOOSE i \in hits : \A j \in hits : i <= j][2]

valid_types(column) ==
    IF IsNone(column.django_field) THEN {"object"}
    ELSE LET f == column.django_field
             hits == {i \in 1..Len(field_type_map) :
                         field_type_map[i][1] \in FieldMRO(f.cls)}
             valid == IF hits = {} THEN {"object"}
                      ELSE field_type_map[CHOOSE i \in hits :
                                             \A j \in hits : i <= j][2]
         IN IF f.null THEN valid \cup {"NoneType"} ELSE valid

OrderDirection(column, direction) ==
    [k |-> "OrderDirection", column |-> column, direction |-> direction]

OrderDirection_to_sql(o) == <<full_name(o.column), Tok(o.direction)>>

Alias(column, alias_name) ==
    [k |-> "Alias", column |-> column, alias_name |-> alias_name]

Alias_to_sql(a) == <<full_name(a.column), Tok("AS"), Tok(Quote(a.alias_name))>>

asc(column) == OrderDirection(column, "ASC")
desc(column) == OrderDirection(column, "DESC")

\* -------------------------------------------------------------- table.py
\* the attributes TableFromModel.__init__ sets, field by field: a later
\* setattr of the same name overwrites an earlier one
RECURSIVE TableAttrs(_, _, _)
TableAttrs(db_table_name, fields, attrs) ==
    IF Len(fields) = 0 THEN attrs
    ELSE LET field == fields[1]
             col == Column(db_table_name, field.column, field)
             id_col == Column(db_table_name, field.column \o "_id", field)
             named == [n \in DOMAIN attrs \cup {field.name} |->
                          IF n = field.name THEN col ELSE attrs[n]]
             id_name == field.name \o "_id"
             withId == [n \in DOMAIN named \cup {id_name} |->
                          IF n = id_name THEN id_col ELSE named[n]]
         IN IF field.column = ""
            THEN TableAttrs(db_table_name, Tail(fields), attrs)
            ELSE IF "ForeignKey" \in FieldMRO(field.cls)
            THEN TableAttrs(db_table_name, Tail(fields), withId)
            ELSE TableAttrs(db_table_name, Tail(fields), named)

TableFromModel(model_class) ==
    LET attrs == TableAttrs(model_class.db_table, model_class.fields, <<>>)
    IN [k |-> "TableFromModel", model_class |-> model_class.name,
        db_table_name |-> model_class.db_table,
        column_names |-> DOMAIN attrs, attrs |-> attrs]

users == TableFromModel(User)
pets == TableFromModel(Pet)

\* hasattr(table, name) and isinstance(getattr(table, name), Column)
HasColumnAttr(table, name) == name \in DOMAIN table.attrs

\* --------------------------------------------------------- conditions.py
Condition(column, operator, value) ==
    [k |-> "Condition", column |-> column, operator |-> operator,
     value |-> value]

NullCondition(column, operator) ==
    [k |-> "NullCondition", column |-> column, operator |-> operator,
     value |-> None]

InCondition(column, values, not_in) ==
    [k |-> "InCondition", column |-> column,
     operator |-> IF not_in THEN "NOT IN" ELSE "IN", value |-> values]

BetweenCondition(column, start, end) ==
    [k |-> "BetweenCondition", column |-> column, operator |-> "BETWEEN",
     value |-> PyTuple(<<start, end>>)]

CompoundCondition(operator, conditions) ==
    [k |-> "CompoundCondition", operator |-> operator,
     conditions |-> conditions, column |-> None]

eq(column, value) == Condition(column, "=", value)
lt(column, value) == Condition(column, "<", value)
gte(column, value) == Condition(column, ">=", value)
ne(column, value) == Condition(column, "<>", value)
gt(column, value) == Condition(column, ">", value)
lte(column, value) == Condition(column, "<=", value)
like(column, pattern) == Condition(column, "LIKE", pattern)
ilike(column, pattern) == Condition(column, "ILIKE", pattern)
is_null(column) == NullCondition(column, "IS NULL")
is_not_null(column) == NullCondition(column, "IS NOT NULL")
in_array(column, values) == InCondition(column, values, FALSE)
not_in_array(column, values) == InCondition(column, values, TRUE)
between(column, start, end) == BetweenCondition(column, start, end)
and_(conditions) == CompoundCondition("AND", conditions)
or_(conditions) == CompoundCondition("OR", conditions)

\* the parameters a caller of to_sql() adds for the value to_sql() returned:
\* nothing for None, the items of a list or tuple, else the value itself
ExtendParams(value) ==
    IF IsNone(value) THEN <<>>
    ELSE IF IsInstance(value, {"list", "tuple"}) THEN value.items
    ELSE <<value>>

RECURSIVE to_sql(_)
\* cond.to_sql(): the pair (clause, value)
to_sql(cond) ==
    CASE cond.k = "Condition" ->
            IF cond.value.k = "Column"
            THEN [clause |-> <<full_name(cond.column), Tok(cond.operator),
                               full_name(cond.value)>>,
                  value |-> None]
            ELSE [clause |-> <<full_name(cond.column), Tok(cond.operator),
                               Placeholder(cond.value)>>,
                  value |-> cond.value]
      [] cond.k = "NullCondition" ->
            [clause |-> <<full_name(cond.column), Tok(cond.operator)>>,
             value |-> None]
      [] cond.k = "InCondition" ->
            [clause |-> <<full_name(cond.column), Tok(cond.operator), Tok("(")>>
                        \o Join(Tok(","),
                                [i \in 1..Len(cond.value.items) |->
                                    <<Placeholder(cond.value.items[i])>>])
                        \o <<Tok(")")>>,
             value |-> cond.value]
      [] cond.k = "BetweenCondition" ->
            [clause |-> <<full_name(cond.column), Tok("BETWEEN"),
                          Placeholder(cond.value.items[1]), Tok("AND"),
                          Placeholder(cond.value.items[2])>>,
             value |-> cond.value]
      [] cond.k = "CompoundCondition" ->
            LET rendered == [i \in 1..Len(cond.conditions) |->
                                to_sql(cond.conditions[i])]
                clauses == [i \in 1..Len(rendered) |->
                               <<Tok("(")>> \o rendered[i].clause \o <<Tok(")")>>]
                params == Flatten([i \in 1..Len(rendered) |->
                                      ExtendParams(rendered[i].value)])
            IN [clause |-> Join(Tok(cond.operator), clauses),
                value |-> PyList(params)]

\* ---------------------------------------------------------- connection.py
\* a module or class name is a sequence of characters, so that the `in`
\* substring tests of _detect_connection_type are computed
Contains(needle, hay) ==
    \E i \in 0..(Len(hay) - Len(needle)) :
        SubSeq(hay, i + 1, i + Len(needle)) = needle

\* connection handles: module and class of the handle's type, the
\* attributes hasattr() can see, and the host-ORM alias where there is one
Handle(id, module, class, attrs, alias) ==
    [id |-> id, module |-> module, class |-> class, attrs |-> attrs,
     alias |-> alias]

DjangoDefault ==
    Handle("django:default",
           <<"d","j","a","n","g","o",".","u","t","i","l","s",".",
             "c","o","n","n","e","c","t","i","o","n">>,
           <<"C","o","n","n","e","c","t","i","o","n","P","r","o","x","y">>,
           {"vendor", "alias", "cursor"}, "default")
Psycopg2Conn ==
    Handle("psycopg2",
           <<"p","s","y","c","o","p","g","2",".",
             "e","x","t","e","n","s","i","o","n","s">>,
           <<"c","o","n","n","e","c","t","i","o","n">>,
           {"cursor"}, "")
Psycopg3Conn ==
    Handle("psycopg3", <<"p","s","y","c","o","p","g">>,
           <<"C","o","n","n","e","c","t","i","o","n">>,
           {"cursor", "execute"}, "")
Psycopg3AsyncConn ==
    Handle("psycopg3_async", <<"p","s","y","c","o","p","g">>,
           <<"A","s","y","n","c","C","o","n","n","e","c","t","i","o","n">>,
           {"cursor", "execute", "__aenter__"}, "")
MySQLdbConn ==
    Handle("mysqlclient",
           <<"M","y","S","Q","L","d","b",".",
             "c","o","n","n","e","c","t","i","o","n","s">>,
           <<"C","o","n","n","e","c","t","i","o","n">>, {"cursor"}, "")
PyMySQLConn ==
    Handle("pymysql",
           <<"p","y","m","y","s","q","l",".",
             "c","o","n","n","e","c","t","i","o","n","s">>,
           <<"C","o","n","n","e","c","t","i","o","n">>, {"cursor"}, "")
AioMySQLConn ==
    Handle("aiomysql",
           <<"a","i","o","m","y","s","q","l",".",
             "c","o","n","n","e","c","t","i","o","n">>,
           <<"C","o","n","n","e","c","t","i","o","n">>, {"cursor"}, "")
AsyncMyConn ==
    Handle("asyncmy",
           <<"a","s","y","n","c","m","y",".",
             "c","o","n","n","e","c","t","i","o","n">>,
           <<"C","o","n","n","e","c","t","i","o","n">>, {"cursor"}, "")

Handles ==
    {DjangoDefault, Psycopg2Conn, Psycopg3Conn, Psycopg3AsyncConn,
     MySQLdbConn, PyMySQLConn, AioMySQLConn, AsyncMyConn}

_detect_connection_type(conn) ==
    LET conn_module == conn.module
        conn_class == conn.class
    IN IF "vendor" \in conn.attrs /\ "alias" \in conn.attrs THEN "django"
       ELSE IF Contains(<<"p","s","y","c","o","p","g">>, conn_module)
       THEN IF Contains(<<"p","s","y","c","o","p","g","2">>, conn_module)
            THEN "psycopg2"
            ELSE IF /\ \/ Contains(<<"A","s","y","n","c","C","o","n","n",
                                     "e","c","t","i","o","n">>, conn_class)
                          \/ "execute" \in conn.attrs
                       /\ "__aenter__" \in conn.attrs
            THEN "psycopg3_async"
            ELSE "psycopg3"
       ELSE IF \/ Contains(<<"M","y","S","Q","L","d","b">>, conn_module)
               \/ Contains(<<"_","m","y","s","q","l">>, conn_module)
       THEN "mysqlclient"
       ELSE IF Contains(<<"p","y","m","y","s","q","l">>, conn_module)
       THEN "pymysql"
       ELSE IF Contains(<<"a","i","o","m","y","s","q","l">>, conn_module)
       THEN "aiomysql"
       ELSE IF Contains(<<"a","s","y","n","c","m","y">>, conn_module)
       THEN "asyncmy"
       ELSE "django"

\* a mode test that knows only the PostgreSQL async driver
_is_async_connection_PsycopgOnly(conn_type) == conn_type = "psycopg3_async"

_is_async_connection(conn_type) ==
    conn_type \in {"psycopg3_async", "aiomysql", "asyncmy"}

ConnectionAdapter(conn) ==
    LET conn_type == _detect_connection_type(conn)
    IN [conn |-> conn, conn_type |-> conn_type,
        is_async |-> _is_async_connection(conn_type)]

get_db_alias(adapter) ==
    IF adapter.conn_type = "django" THEN adapter.conn.alias ELSE "default"

\* a cursor() that asks the connection whatever the mode of the adapter
cursor_Unchecked(adapter) == [raised |-> "none", on |-> adapter.conn.id]

\* cursor(): the usage error, or a cursor of the wrapped connection
cursor(adapter) ==
    IF adapter.is_async
    THEN [raised |-> "RuntimeError:cursor", on |-> ""]
    ELSE [raised |-> "none", on |-> adapter.conn.id]

async_cursor(adapter) ==
    IF ~adapter.is_async
    THEN [raised |-> "RuntimeError:async_cursor", on |-> ""]
    ELSE [raised |-> "none", on |-> adapter.conn.id]

\* ----------------------------------------------------- query.py: builder
VARIABLES
    self,   \* the DjazzleQuery instance: its attributes
    last,   \* the last public operation invoked on it and its outcome
    chain   \* the current chain: the verb that started it and whether
            \* from_() was called since

vars == <<self, last, chain>>

\* DjazzleQuery.__init__
DjazzleQuery(conn) ==
    [conn_adapter |-> ConnectionAdapter(conn),
     conn |-> conn,
     _table |-> None,
     _fields |-> None,
     _conditions |-> <<>>,
     _as_model |-> FALSE,
     _limit |-> None,
     _offset |-> None,
     _order_by |-> <<>>,
     _distinct |-> FALSE,
     _query_type |-> "select",
     _insert_values |-> None,
     _returning_fields |-> None,
     _update_values |-> None,
     _joins |-> <<>>]

\* a reset that forgets the join list
_reset_query_state_keeps_joins(q) ==
    [q EXCEPT !._fields = None,
              !._conditions = <<>>,
              !._limit = None,
              !._offset = None,
              !._order_by = <<>>,
              !._distinct = FALSE,
              !._insert_values = None,
              !._update_values = None,
              !._returning_fields = None]

_reset_query_state(q) ==
    [q EXCEPT !._fields = None,
              !._conditions = <<>>,
              !._limit = None,
              !._offset = None,
              !._order_by = <<>>,
              !._distinct = FALSE,
              !._insert_values = None,
              !._update_values = None,
              !._returning_fields = None,
              !._joins = <<>>]

\* whether a builder holds any clause state a verb call has to discard
HasClauseState(q) ==
    \/ ~IsNone(q._fields) \/ q._conditions # <<>> \/ ~IsNone(q._limit)
    \/ ~IsNone(q._offset) \/ q._order_by # <<>> \/ q._distinct
    \/ ~IsNone(q._insert_values) \/ ~IsNone(q._update_values)
    \/ ~IsNone(q._returning_fields) \/ q._joins # <<>>

\* the outcome of a chain call that is not a verb
Chained == [op |-> "chain", raised |-> "none"]

\* the outcome of a verb call on builder q: its arguments, and whether the
\* call had clause state to discard
Called(op, args, q) ==
    [op |-> op, args |-> args, raised |-> "none",
     had_state |-> HasClauseState(q)]

\* a verb call starts a chain
Started(verb) == [verb |-> verb, from_ |-> FALSE]

select(fields) ==
    /\ self' = [_reset_query_state(self) EXCEPT
                   !._query_type = "select",
                   !._fields = IF Len(fields) > 0 THEN PyList(fields) ELSE None]
    /\ last' = Called("select", fields, self)
    /\ chain' = Started("select")

select_distinct(fields) ==
    /\ self' = [_reset_query_state(self) EXCEPT
                   !._query_type = "select",
                   !._fields = IF Len(fields) > 0 THEN PyList(fields) ELSE None,
                   !._distinct = TRUE]
    /\ last' = Called("select_distinct", fields, self)
    /\ chain' = Started("select_distinct")

insert(table) ==
    /\ self' = [_reset_query_state(self) EXCEPT
                   !._query_type = "insert", !._table = table]
    /\ last' = Called("insert", table.db_table_name, self)
    /\ chain' = Started("insert")

update(table) ==
    /\ self' = [_reset_query_state(self) EXCEPT
                   !._query_type = "update", !._table = table]
    /\ last' = Called("update", table.db_table_name, self)
    /\ chain' = Started("update")

delete(table) ==
    /\ self' = [_reset_query_state(self) EXCEPT
                   !._query_type = "delete", !._table = table]
    /\ last' = Called("delete", table.db_table_name, self)
    /\ chain' = Started("delete")

from_(table) ==
    /\ self' = [self EXCEPT !._table = table]
    /\ last' = Chained
    /\ chain' = [chain EXCEPT !.from_ = TRUE]

where(conditions) ==
    /\ Len(self._conditions) + Len(conditions) <= MaxConds
    /\ self' = [self EXCEPT !._conditions = @ \o conditions]
    /\ last' = Chained
    /\ UNCHANGED chain

\* left_join, right_join, inner_join and full_join differ in join_type only
join(join_type, table, condition) ==
    /\ Len(self._joins) < MaxJoins
    /\ self' = [self EXCEPT !._joins = Append(@, <<join_type, table, condition>>)]
    /\ last' = Chained
    /\ UNCHANGED chain

as_model(value) ==
    /\ self' = [self EXCEPT !._as_model = value]
    /\ last' = Chained
    /\ UNCHANGED chain

limit(count) ==
    /\ self' = [self EXCEPT !._limit = count]
    /\ last' = Chained
    /\ UNCHANGED chain

offset(count) ==
    /\ self' = [self EXCEPT !._offset = count]
    /\ last' = Chained
    /\ UNCHANGED chain

order_by(columns) ==
    /\ Len(self._order_by) + Len(columns) <= MaxOrder
    /\ self' = [self EXCEPT !._order_by = @ \o columns]
    /\ last' = Chained
    /\ UNCHANGED chain

returning(fields) ==
    /\ self' = [self EXCEPT !._returning_fields =
                   IF Len(fields) > 0 THEN PyList(fields)
                   ELSE PyList(<<PyStr("*")>>)]
    /\ last' = Chained
    /\ UNCHANGED chain

\* -------------------------------------------- strings given to select()
\* a selected field given as a string is a sequence of characters, so that
\* the `in`, lower(), split() and rsplit() of the builder are computed
FieldStr(chars) == [k |-> "str", chars |-> chars]

RECURSIVE Concat(_)
\* the characters as one piece of text
Concat(chars) == IF Len(chars) = 0 THEN "" ELSE chars[1] \o Concat(Tail(chars))

LowerChar(c) ==
    CASE c = "A" -> "a" [] c = "S" -> "s" [] c = "I" -> "i" [] c = "D" -> "d"
      [] c = "N" -> "n" [] c = "M" -> "m" [] c = "E" -> "e" [] c = "G" -> "g"
      [] OTHER -> c

Lower(chars) == [i \in 1..Len(chars) |-> LowerChar(chars[i])]

RECURSIVE SplitFrom(_, _, _)
\* str.split(): the maximal runs of non-blank characters
SplitFrom(chars, i, word) ==
    IF i > Len(chars) THEN (IF Len(word) = 0 THEN <<>> ELSE <<word>>)
    ELSE IF chars[i] = " "
    THEN (IF Len(word) = 0 THEN <<>> ELSE <<word>>) \o SplitFrom(chars, i + 1, <<>>)
    ELSE SplitFrom(chars, i + 1, Append(word, chars[i]))

Split(chars) == SplitFrom(chars, 1, <<>>)

\* " ".join(words)
JoinWords(words) == Join(" ", words)

\* str.rsplit(".", 1) of a string that holds a "."
RSplitDot(chars) ==
    LET i == CHOOSE j \in 1..Len(chars) :
                 chars[j] = "." /\ \A m \in (j + 1)..Len(chars) : chars[m] # "."
    IN <<SubSeq(chars, 1, i - 1), SubSeq(chars, i + 1, Len(chars))>>

HasAs(f) == Contains(<<" ", "a", "s", " ">>, Lower(f.chars))
HasDot(chars) == Contains(<<".">>, chars)

\* next(i for i, p in enumerate(parts) if p.lower() == "as"), 1-based
AsIndex(parts) ==
    CHOOSE i \in 1..Len(parts) :
        Lower(parts[i]) = <<"a", "s">>
        /\ \A j \in 1..(i - 1) : Lower(parts[j]) # <<"a", "s">>

\* ------------------------------------------------- query.py: validation
Ok == [raised |-> "none"]

\* the first (row, column) whose value is not an instance of the column's
\* valid types: rows in order, the items of a row in order
_validate_value_types(q, rows) ==
    IF ~Truthy(q._table) THEN Ok
    ELSE LET pairs == Flatten([r \in 1..Len(rows) |->
                          [i \in 1..Len(rows[r].pairs) |->
                              [row_idx |-> r - 1,
                               col_name |-> rows[r].pairs[i][1],
                               value |-> rows[r].pairs[i][2]]]])
             Bad(p) == /\ HasColumnAttr(q._table, p.col_name)
                       /\ ~IsInstance(p.value,
                                      valid_types(q._table.attrs[p.col_name]))
             bad == {i \in 1..Len(pairs) : Bad(pairs[i])}
         IN IF bad = {} THEN Ok
            ELSE LET first == pairs[CHOOSE i \in bad : \A j \in bad : i <= j]
                 IN [raised |-> "TypeError", column |-> first.col_name,
                     row_idx |-> first.row_idx]

InvalidColumnError(col_name, place) ==
    [raised |-> "InvalidColumnError", column |-> col_name, place |-> place]

\* the outcome of checking one selected field
ValidateField(q, f) ==
    IF f.k \in {"Column", "Alias"} THEN Ok
    ELSE IF HasDot(f.chars) THEN Ok
    ELSE IF HasAs(f)
    THEN LET parts == Split(f.chars)
             col_name == JoinWords([i \in 1..(AsIndex(parts) - 1) |-> parts[i]])
         IN IF HasDot(col_name) THEN Ok
            ELSE IF Concat(col_name) \notin q._table.column_names
            THEN InvalidColumnError(Concat(col_name), "field")
            ELSE Ok
    ELSE IF Concat(f.chars) \notin q._table.column_names
    THEN InvalidColumnError(Concat(f.chars), "field")
    ELSE Ok

\* no descent into compound conditions: only a simple condition is a leaf
LeafConditions_TopLevelOnly(cond) ==
    IF cond.k = "CompoundCondition" THEN <<>> ELSE <<cond>>

RECURSIVE LeafConditions(_)
\* the non-compound conditions of a condition, depth first, left to right
LeafConditions(cond) ==
    IF cond.k = "CompoundCondition"
    THEN Flatten([i \in 1..Len(cond.conditions) |->
                     LeafConditions(cond.conditions[i])])
    ELSE <<cond>>

\* the outcome of validate_condition on one non-compound condition
ValidateLeaf(q, cond) ==
    LET col_name == IF cond.column.k = "Column"
                    THEN cond.column.column_name ELSE ""
    IN IF col_name # "" /\ col_name \notin q._table.column_names
       THEN InvalidColumnError(col_name, "condition")
       ELSE Ok

ValidateOrder(q, order_item) ==
    LET col_name == IF order_item.k = "OrderDirection"
                    THEN order_item.column.column_name
                    ELSE order_item.column_name
    IN IF col_name \notin q._table.column_names
       THEN InvalidColumnError(col_name, "order by")
       ELSE Ok

\* the first outcome of a sequence of outcomes that is an error, else Ok
FirstError(outcomes) ==
    LET bad == {i \in 1..Len(outcomes) : outcomes[i].raised # "none"}
    IN IF bad = {} THEN Ok
       ELSE outcomes[CHOOSE i \in bad : \A j \in bad : i <= j]

_validate_columns(q) ==
    IF ~Truthy(q._table) THEN [raised |-> "ValueError:No table selected"]
    ELSE LET fields == IF Truthy(q._fields) THEN q._fields.items ELSE <<>>
             leaves == Flatten([i \in 1..Len(q._conditions) |->
                                   LeafConditions(q._conditions[i])])
         IN FirstError(
               [i \in 1..Len(fields) |-> ValidateField(q, fields[i])]
               \o [i \in 1..Len(leaves) |-> ValidateLeaf(q, leaves[i])]
               \o [i \in 1..Len(q._order_by) |-> ValidateOrder(q, q._order_by[i])])

\* ----------------------------------------------- query.py: SQL assembly
Built(sql, params) == [raised |-> "none", sql |-> sql, params |-> params]

\* one selected field as SQL; <<>> stands for the IndexError of a string
\* that ends after its `as`
FieldPart(f) ==
    IF f.k = "Alias" THEN Alias_to_sql(f)
    ELSE IF f.k = "Column" THEN <<full_name(f)>>
    ELSE IF HasAs(f)
    THEN LET parts == Split(f.chars)
             as_index == AsIndex(parts)
             col_part == JoinWords([i \in 1..(as_index - 1) |-> parts[i]])
         IN IF as_index + 1 > Len(parts) THEN <<>>
            ELSE LET alias_part == parts[as_index + 1]
                 IN IF HasDot(col_part)
                    THEN <<Tok(Quote(Concat(RSplitDot(col_part)[1]))), Tok("."),
                           Tok(Quote(Concat(RSplitDot(col_part)[2]))), Tok("AS"),
                           Tok(Quote(Concat(alias_part)))>>
                    ELSE <<Tok(Quote(Concat(col_part))), Tok("AS"),
                           Tok(Quote(Concat(alias_part)))>>
    ELSE IF HasDot(f.chars)
    THEN <<Tok(Quote(Concat(RSplitDot(f.chars)[1]))), Tok("."),
           Tok(Quote(Concat(RSplitDot(f.chars)[2])))>>
    ELSE <<Tok(Quote(Concat(f.chars)))>>

\* the WHERE clause and its parameters, as select, update and delete build it
WhereClause(q) ==
    LET rendered == [i \in 1..Len(q._conditions) |-> to_sql(q._conditions[i])]
    IN IF Len(q._conditions) = 0 THEN [sql |-> <<>>, params |-> <<>>]
       ELSE [sql |-> <<Tok("WHERE")>>
                     \o Join(Tok("AND"),
                             [i \in 1..Len(rendered) |-> rendered[i].clause]),
             params |-> Flatten([i \in 1..Len(rendered) |->
                                    ExtendParams(rendered[i].value)])]

JoinClauses(q) ==
    LET rendered == [i \in 1..Len(q._joins) |-> to_sql(q._joins[i][3])]
    IN [sql |-> Flatten([i \in 1..Len(q._joins) |->
                   <<Tok(q._joins[i][1]), Tok("JOIN"),
                     Tok(Quote(q._joins[i][2].db_table_name)), Tok("ON")>>
                   \o rendered[i].clause]),
        params |-> Flatten([i \in 1..Len(rendered) |->
                               ExtendParams(rendered[i].value)])]

LimitClause(q) ==
    IF ~IsNone(q._limit) THEN <<Tok("LIMIT"), Tok(q._limit.x)>> ELSE <<>>

OffsetClause(q) ==
    IF ~IsNone(q._offset) THEN <<Tok("OFFSET"), Tok(q._offset.x)>> ELSE <<>>

\* a RETURNING clause that returns every column whatever fields were asked
ReturningClause_AlwaysStar(q) ==
    IF IsNone(q._returning_fields) THEN <<>>
    ELSE <<Tok("RETURNING"), Tok("*")>>

ReturningClause(q) ==
    IF IsNone(q._returning_fields) THEN <<>>
    ELSE LET fs == q._returning_fields.items
         IN IF \E i \in 1..Len(fs) : fs[i].x = "*"
            THEN <<Tok("RETURNING"), Tok("*")>>
            ELSE <<Tok("RETURNING")>>
                 \o Join(Tok(","), [i \in 1..Len(fs) |-> <<Tok(Quote(fs[i].x))>>])

\* parameters of a select with the where-conditions' ahead of the joins'
SelectParams_WhereFirst(joins, wh) == wh.params \o joins.params

\* params of a select: extended join by join, then condition by condition
SelectParams(joins, wh) == joins.params \o wh.params

_build_select_sql(q) ==
    LET checked == _validate_columns(q)
        fs == IF Truthy(q._fields) THEN q._fields.items ELSE <<>>
        field_parts == [i \in 1..Len(fs) |-> FieldPart(fs[i])]
        fields == IF Len(fs) > 0 THEN Join(Tok(","), field_parts)
                  ELSE <<Tok("*")>>
        joins == JoinClauses(q)
        wh == WhereClause(q)
        order == IF Len(q._order_by) = 0 THEN <<>>
                 ELSE <<Tok("ORDER BY")>>
                      \o Join(Tok(","),
                              [i \in 1..Len(q._order_by) |->
                                  IF q._order_by[i].k = "OrderDirection"
                                  THEN OrderDirection_to_sql(q._order_by[i])
                                  ELSE <<full_name(q._order_by[i]), Tok("ASC")>>])
    IN IF checked.raised # "none" THEN checked
       ELSE IF \E i \in 1..Len(fs) : field_parts[i] = <<>>
       THEN [raised |-> "IndexError"]
       ELSE Built(<<Tok("SELECT")>>
                  \o (IF q._distinct THEN <<Tok("DISTINCT")>> ELSE <<>>)
                  \o fields
                  \o <<Tok("FROM"), Tok(Quote(q._table.db_table_name))>>
                  \o joins.sql \o wh.sql \o order
                  \o LimitClause(q) \o OffsetClause(q),
                  SelectParams(joins, wh))

\* a column list that keeps every key of every row, repeated or not
UniqueColumns_NoDedup(keys, columns) == columns \o keys

RECURSIVE UniqueColumns(_, _)
\* the keys of the rows in first-occurrence order: rows in order, the keys
\* of a row in order
UniqueColumns(keys, columns) ==
    IF Len(keys) = 0 THEN columns
    ELSE IF \E i \in 1..Len(columns) : columns[i] = keys[1]
    THEN UniqueColumns(Tail(keys), columns)
    ELSE UniqueColumns(Tail(keys), Append(columns, keys[1]))

\* an existence check that lets every column through
FirstInvalidColumn_Unchecked(q, columns) == Ok

\* the first column of a sequence that is not a column name of the table
FirstInvalidColumn(q, columns) ==
    FirstError([i \in 1..Len(columns) |->
                   IF columns[i] \notin q._table.column_names
                   THEN InvalidColumnError(columns[i], "values")
                   ELSE Ok])

_build_insert_sql(q) ==
    IF ~Truthy(q._insert_values)
    THEN [raised |-> "ValueError:No values specified for INSERT"]
    ELSE LET rows == q._insert_values.items
             columns == UniqueColumns(
                            Flatten([r \in 1..Len(rows) |-> Keys(rows[r])]), <<>>)
             checked == FirstInvalidColumn(q, columns)
             column_list == Join(Tok(","),
                                 [i \in 1..Len(columns) |->
                                     <<Tok(Quote(columns[i]))>>])
             value_rows == [r \in 1..Len(rows) |->
                               <<Tok("(")>>
                               \o Join(Tok(","),
                                       [i \in 1..Len(columns) |->
                                           <<Placeholder(Get(rows[r], columns[i]))>>])
                               \o <<Tok(")")>>]
             params == Flatten([r \in 1..Len(rows) |->
                                   [i \in 1..Len(columns) |->
                                       Get(rows[r], columns[i])]])
         IN IF checked.raised # "none" THEN checked
            ELSE Built(<<Tok("INSERT INTO"), Tok(Quote(q._table.db_table_name)),
                         Tok("(")>> \o column_list \o <<Tok(")"), Tok("VALUES")>>
                       \o Join(Tok(","), value_rows)
                       \o ReturningClause(q),
                       params)

\* assignments from which the ones that set NULL are dropped
UpdateItems_DropNone(update_values) ==
    SelectSeq(update_values.pairs, LAMBDA pair : ~IsNone(pair[2]))

\* self._update_values.items(): every assignment, in the order of the mapping
UpdateItems(update_values) == update_values.pairs

_build_update_sql(q) ==
    IF ~Truthy(q._update_values)
    THEN [raised |-> "ValueError:No values specified for UPDATE"]
    ELSE LET items == UpdateItems(q._update_values)
             checked == FirstInvalidColumn(q, Keys(q._update_values))
             set_clauses == [i \in 1..Len(items) |->
                                <<Tok(Quote(items[i][1])), Tok("="),
                                  Placeholder(items[i][2])>>]
             wh == WhereClause(q)
         IN IF checked.raised # "none" THEN checked
            ELSE Built(<<Tok("UPDATE"), Tok(Quote(q._table.db_table_name)),
                         Tok("SET")>> \o Join(Tok(","), set_clauses)
                       \o wh.sql \o LimitClause(q) \o ReturningClause(q),
                       [i \in 1..Len(items) |-> items[i][2]] \o wh.params)

_build_delete_sql(q) ==
    LET wh == WhereClause(q)
    IN Built(<<Tok("DELETE FROM"), Tok(Quote(q._table.db_table_name))>>
             \o wh.sql \o LimitClause(q) \o ReturningClause(q),
             wh.params)

_build_sql(q) ==
    IF ~Truthy(q._table) THEN [raised |-> "ValueError:No table selected"]
    ELSE IF q._query_type = "insert" THEN _build_insert_sql(q)
    ELSE IF q._query_type = "update" THEN _build_update_sql(q)
    ELSE IF q._query_type = "delete" THEN _build_delete_sql(q)
    ELSE _build_select_sql(q)

\* --------------------------------------- query.py: values, set, .sql
\* values() stores the rows and then validates them
values(data) ==
    LET rows == IF data.k = "dict" THEN PyList(<<data>>) ELSE data
        q == [self EXCEPT !._insert_values = rows]
    IN /\ UNCHANGED chain
       /\ self' = IF data.k \in {"dict", "list"} THEN q ELSE self
       /\ last' = [op |-> "values", args |-> data]
                  @@ (IF data.k \in {"dict", "list"}
                      THEN _validate_value_types(q, rows.items)
                      ELSE [raised |-> "ValueError:values() must receive a dict or list of dicts"])

\* set() stores the mapping and then validates it
set(data) ==
    LET q == [self EXCEPT !._update_values = data]
    IN /\ UNCHANGED chain
       /\ self' = IF data.k = "dict" THEN q ELSE self
       /\ last' = [op |-> "set", args |-> data]
                  @@ (IF data.k = "dict"
                      THEN _validate_value_types(q, <<data>>)
                      ELSE [raised |-> "ValueError:set() must receive a dict"])

\* a build that uses up the conditions it renders
BuilderAfterBuild_ConsumesConditions(q) == [q EXCEPT !._conditions = <<>>]

\* the builder after _build_sql() ran: _build_sql, the four statement
\* builders, _validate_columns and to_sql assign no attribute of the builder
\* or of its conditions
BuilderAfterBuild(q) == q

\* the .sql and .params accessors: both run _build_sql() and execute nothing
build ==
    /\ self' = BuilderAfterBuild(self)
    /\ UNCHANGED chain
    /\ last' = [op |-> "build"] @@ _build_sql(self)

\* ------------------------------------------------- query.py: execution
\* the connection `from django.db import connection` names
ThreadLocalConn == DjangoDefault.id

\* a result shape that follows the as_model flag for every statement kind
ResultShape_ModelsOnReturning(query_type, returning_fields, as_model_flag) ==
    IF query_type \in {"insert", "update", "delete"} /\ IsNone(returning_fields)
    THEN "None"
    ELSE (IF as_model_flag THEN "models" ELSE "mappings")

\* the shape of the result of a statement that ran
ResultShape(query_type, returning_fields, as_model_flag) ==
    IF query_type \in {"insert", "update", "delete"}
    THEN (IF ~IsNone(returning_fields) THEN "mappings" ELSE "None")
    ELSE (IF as_model_flag THEN "models" ELSE "mappings")

\* the outcome of an execution that did no I/O
Failed(op, raised) ==
    [op |-> op, raised |-> raised, acquired |-> <<>>, released |-> <<>>,
     submitted |-> <<>>, events |-> <<>>, result |-> "-"]

\* what the driver does during one execution: nothing wrong, or it raises
\* when the cursor is asked for, when the statement is executed, or when the
\* rows are fetched
DriverOutcomes == {"ok", "cursor raises", "execute raises", "fetch raises"}

\* a cursor scope that skips the release when its body raises
CursorScope_NoReleaseOnError(body, raises) ==
    <<"acquire">> \o body \o (IF raises THEN <<>> ELSE <<"release">>)

\* `with ... cursor() as cur: body`: the cursor is entered, the body runs,
\* and the cursor is exited whether or not the body raised
CursorScope(body, raises) == <<"acquire">> \o body \o <<"release">>

\* `with cursor: execute; fetch`: one cursor on connection `on`, one
\* statement, the rows fetched if the statement returns rows
Ran(op, q, on, built, driver) ==
    LET shape == ResultShape(q._query_type, q._returning_fields, q._as_model)
        fetches == shape # "None"
        raises == \/ driver = "execute raises"
                  \/ (driver = "fetch raises" /\ fetches)
        body == <<"execute">>
                \o (IF driver # "execute raises" /\ fetches
                    THEN <<"fetch">> ELSE <<>>)
    IN IF driver = "cursor raises"
       THEN [Failed(op, "DriverError:cursor raises") EXCEPT !.events = <<"raise">>]
       ELSE [op |-> op,
             raised |-> IF raises THEN "DriverError:" \o driver ELSE "none",
             acquired |-> <<on>>,
             released |-> IF "release" \in {CursorScope(body, raises)[i] :
                                   i \in 1..Len(CursorScope(body, raises))}
                          THEN <<on>> ELSE <<>>,
             submitted |-> <<[on |-> on, sql |-> built.sql,
                              params |-> built.params]>>,
             events |-> CursorScope(body, raises)
                        \o (IF raises THEN <<"raise">> ELSE <<"return">>),
             result |-> IF raises THEN "-" ELSE shape]

\* query(): DjazzleQuery.__call__
_execute(driver) ==
    LET built == _build_sql(self)
        cur == cursor(self.conn_adapter)
    IN /\ UNCHANGED <<self, chain>>
       /\ last' = IF built.raised # "none" THEN Failed("call", built.raised)
                  ELSE IF self.conn_adapter.is_async
                  THEN Failed("call", "RuntimeError:Cannot use synchronous execute()")
                  ELSE IF cur.raised # "none" THEN Failed("call", cur.raised)
                  ELSE Ran("call", self, cur.on, built, driver)

\* await query: DjazzleQuery.__await__
_aexecute(driver) ==
    LET built == _build_sql(self)
        cur == async_cursor(self.conn_adapter)
    IN /\ UNCHANGED <<self, chain>>
       /\ last' = IF built.raised # "none" THEN Failed("await", built.raised)
                  ELSE IF self.conn_adapter.is_async
                  THEN (IF cur.raised # "none" THEN Failed("await", cur.raised)
                        ELSE Ran("await", self, cur.on, built, driver))
                  ELSE Ran("await", self, ThreadLocalConn, built, driver)

\* ------------------------------------------------------ the state machine
\* the columns of the two tables, by attribute name
U(name) == users.attrs[name]
P(name) == pets.attrs[name]

Tables == {users, pets}
Verbs == {"select", "select_distinct", "insert", "update", "delete"}

\* DjazzleQuery(conn)
Start(conn) ==
    /\ self = DjazzleQuery(conn)
    /\ last = [op |-> "init", raised |-> "none"]
    /\ chain = [verb |-> "init", from_ |-> FALSE]

\* arguments of the chain calls of Spec
SelectArgs == {<<>>, <<FieldStr(<<"i", "d">>)>>}
WhereArgs == {<<eq(U("age"), PyInt("20"))>>}
JoinArgs == {<<"LEFT", pets, eq(U("id"), P("owner"))>>}
OrderArgs == {<<desc(U("name"))>>}
LimitArgs == {PyInt("1")}
OffsetArgs == {PyInt("5")}
ValuesArgs == {PyDict(<<<<"name", PyStr("Ann")>>, <<"age", PyInt("25")>>>>)}
SetArgs == {PyDict(<<<<"age", None>>>>)}
ReturningArgs == {<<>>}

Init == Start(DjangoDefault)

Next ==
    \/ \E fields \in SelectArgs : select(fields)
    \/ \E fields \in SelectArgs : select_distinct(fields)
    \/ \E table \in Tables : insert(table)
    \/ \E table \in Tables : update(table)
    \/ \E table \in Tables : delete(table)
    \/ \E table \in Tables : from_(table)
    \/ \E conditions \in WhereArgs : where(conditions)
    \/ \E j \in JoinArgs : join(j[1], j[2], j[3])
    \/ \E value \in BOOLEAN : as_model(value)
    \/ \E count \in LimitArgs : limit(count)
    \/ \E count \in OffsetArgs : offset(count)
    \/ \E columns \in OrderArgs : order_by(columns)
    \/ \E fields \in ReturningArgs : returning(fields)
    \/ \E data \in ValuesArgs : values(data)
    \/ \E data \in SetArgs : set(data)
    \/ build

Spec == Init /\ [][Next]_vars

\* ------------------------------------------------- statement state reset
KindOfVerb(verb) == IF verb = "select_distinct" THEN "select" ELSE verb

ClauseTokens ==
    {"JOIN", "WHERE", "ORDER BY", "LIMIT", "OFFSET", "RETURNING", "VALUES",
     "SET", "DISTINCT", "%s"}

\* C6: right after a verb call (select, select_distinct, insert, update,
\* delete) the builder has exactly that statement kind, and fields,
\* conditions, joins, order-by, limit, offset, distinct, insert rows, update
\* assignments and returning fields have their initial empty values, except
\* the fields and the distinct flag that very select call set; a build() in
\* that state that succeeds has no clause and no parameter of the earlier
\* chain.
C6_VerbResetsClauseState ==
    last.op \in Verbs =>
        /\ self._query_type = KindOfVerb(last.op)
        /\ self._fields = IF last.op \in {"select", "select_distinct"}
                             /\ Len(last.args) > 0
                          THEN PyList(last.args) ELSE None
        /\ self._distinct = (last.op = "select_distinct")
        /\ self._conditions = <<>>
        /\ self._joins = <<>>
        /\ self._order_by = <<>>
        /\ self._limit = None
        /\ self._offset = None
        /\ self._insert_values = None
        /\ self._update_values = None
        /\ self._returning_fields = None
        /\ LET b == _build_sql(self)
           IN b.raised = "none" =>
                 /\ b.params = <<>>
                 /\ \A t \in ClauseTokens \ {"DISTINCT"} : ~HasToken(b.sql, t)
                 /\ HasToken(b.sql, "DISTINCT") = (last.op = "select_distinct")

\* a verb call that discarded clause state of an earlier chain, after which
\* build() succeeds
C6_Witness ==
    /\ last.op \in Verbs
    /\ last.had_state
    /\ _build_sql(self).raised = "none"

\* C7: the as_model flag is reset by every verb call, so a select started
\* after as_model(True) of an earlier chain yields row mappings.
C7_VerbResetsAsModel ==
    last.op \in Verbs =>
        /\ self._as_model = FALSE
        /\ (self._query_type = "select" =>
               ResultShape(self._query_type, self._returning_fields,
                           self._as_model) = "mappings")

\* C8: after select() or select_distinct(), and until from_() is called in
\* that chain, build() fails with the 'no table' error and gives no SQL.
C8_SelectWithoutFromFails ==
    (last.op = "build" /\ chain.verb \in {"select", "select_distinct"}
       /\ ~chain.from_)
        => last.raised = "ValueError:No table selected"

\* ------------------------------------------------------- insert building
\* rows given to values(): keys in either order, rows that lack a key of
\* another row, and a key (nick) that is no column of users
InsertRows ==
    {PyDict(<<<<"name", PyStr("Ann")>>, <<"age", PyInt("25")>>>>),
     PyDict(<<<<"age", PyInt("30")>>, <<"name", PyStr("Bob")>>>>),
     PyDict(<<<<"name", PyStr("Cy")>>>>),
     PyDict(<<<<"email", PyStr("d@e.f")>>, <<"name", PyStr("Di")>>>>),
     PyDict(<<<<"nick", PyStr("x")>>>>)}

RECURSIVE SeqsUpTo(_, _)
\* the sequences over S of length at most n
SeqsUpTo(S, n) ==
    IF n = 0 THEN {<<>>}
    ELSE LET shorter == SeqsUpTo(S, n - 1)
         IN shorter \cup {Append(q, x) : q \in shorter, x \in S}

\* values() is given one row or a list of at most MaxRows rows
InsertData == InsertRows \cup {PyList(rows) : rows \in SeqsUpTo(InsertRows, MaxRows)}

InsertReturningArgs == {<<>>, <<PyStr("id")>>}

NextInsert ==
    \/ insert(users)
    \/ \E data \in InsertData : values(data)
    \/ \E fields \in InsertReturningArgs : returning(fields)
    \/ build

SpecInsert == Init /\ [][NextInsert]_vars

\* the keys of all rows, rows in order, the keys of a row in order
KeyStream(rows) == Flatten([r \in 1..Len(rows) |-> Keys(rows[r])])

\* the position of the first occurrence of a key among the keys of all rows
FirstPos(rows, key) ==
    LET ks == KeyStream(rows)
    IN CHOOSE i \in 1..Len(ks) : ks[i] = key /\ \A j \in 1..(i - 1) : ks[j] # key

RECURSIVE TextUpTo(_, _, _)
\* the text of the tokens of sql from position from up to, not including,
\* the first token `stop` at or after from (or up to the end)
TextUpTo(sql, from, stop) ==
    IF from > Len(sql) \/ sql[from].s = stop THEN <<>>
    ELSE <<sql[from].s>> \o TextUpTo(sql, from + 1, stop)

\* a comma-separated list without its commas
Listed(texts) == SelectSeq(texts, LAMBDA t : t # ",")

\* the position of the first token with text s
PositionOf(sql, s) ==
    CHOOSE i \in 1..Len(sql) : sql[i].s = s /\ \A j \in 1..(i - 1) : sql[j].s # s

\* the text of a VALUES list of n rows of m placeholders each
ValuesText(n, m) ==
    Join(",", [r \in 1..n |-> <<"(">> \o Join(",", [i \in 1..m |-> <<"%s">>])
                              \o <<")">>])

\* C9: an insert build uses as column list the union of the keys of all rows
\* in first-occurrence order; every row emits one placeholder per column, so
\* params has n * |columns| entries, and the parameter of a column a row
\* lacks is NULL (None) at that position.
C9_InsertColumnsAndParams ==
    (last.op = "build" /\ last.raised = "none" /\ self._query_type = "insert") =>
        LET rows == self._insert_values.items
            n == Len(rows)
            ks == KeyStream(rows)
            keyset == {ks[i] : i \in 1..Len(ks)}
            cols == Listed(TextUpTo(last.sql, PositionOf(last.sql, "(") + 1, ")"))
            m == Len(cols)
            key(i) == CHOOSE c \in keyset : Quote(c) = cols[i]
            vtext == TextUpTo(last.sql, PositionOf(last.sql, "VALUES") + 1,
                              "RETURNING")
        IN /\ {cols[i] : i \in 1..m} = {Quote(c) : c \in keyset}
           /\ m = Cardinality(keyset)
           /\ \A i, j \in 1..m :
                 i < j => FirstPos(rows, key(i)) < FirstPos(rows, key(j))
           /\ vtext = ValuesText(n, m)
           /\ CountToken(last.sql, "%s") = n * m
           /\ Len(last.params) = n * m
           /\ \A r \in 1..n : \A i \in 1..m :
                 last.params[(r - 1) * m + i] =
                    IF HasKey(rows[r], key(i)) THEN Get(rows[r], key(i)) ELSE None

\* an insert of two rows was built whose second row lacks a key of the first
C9_Witness ==
    /\ last.op = "build" /\ last.raised = "none"
    /\ self._query_type = "insert"
    /\ Len(self._insert_values.items) = 2
    /\ \E key \in {"name", "age", "email"} :
          /\ HasKey(self._insert_values.items[1], key)
          /\ ~HasKey(self._insert_values.items[2], key)
    /\ \E i \in 1..Len(last.params) : last.params[i] = None

\* ------------------------------------------------- value type validation
TypedDicts ==
    {PyDict(<<<<"name", PyStr("Ann")>>, <<"age", PyInt("25")>>>>),
     PyDict(<<<<"age", PyStr("not-a-number")>>>>),
     PyDict(<<<<"name", PyStr("Ann")>>, <<"age", PyBool("True")>>>>),
     PyDict(<<<<"age", None>>>>),
     PyDict(<<<<"name", PyInt("5")>>>>),
     PyDict(<<<<"name", None>>, <<"age", PyStr("old")>>>>),
     PyDict(<<<<"nick", PyInt("1")>>>>),
     PyDict(<<<<"owner", PyInt("1")>>, <<"species", PyStr("cat")>>>>)}

TypedData ==
    TypedDicts
    \cup {PyList(<<PyDict(<<<<"name", PyStr("Ann")>>>>),
                   PyDict(<<<<"age", PyStr("not-a-number")>>>>)>>),
          PyStr("name")}

NextTypes ==
    \/ \E table \in Tables : insert(table)
    \/ \E table \in Tables : update(table)
    \/ \E data \in TypedData : values(data)
    \/ \E data \in TypedData : set(data)
    \/ build

SpecTypes == Init /\ [][NextTypes]_vars

\* the rows the argument of values() or set() stands for: a mapping, or for
\* values() a list of mappings
RowsOf(op, data) ==
    IF data.k = "dict" THEN <<data>>
    ELSE IF op = "values" /\ data.k = "list" THEN data.items ELSE <<>>

\* the kind of the value is a member of the accepted kinds (every kind is a
\* member of the accepted kinds of a column that accepts any kind)
KindAccepted(value, kinds) == "object" \in kinds \/ value.k \in kinds

\* the keys of the rows that name a column of the table and whose value has
\* a kind the column does not accept
Mismatches(table, rows) ==
    UNION {{rows[r].pairs[i][1] : i \in
              {j \in 1..Len(rows[r].pairs) :
                 /\ rows[r].pairs[j][1] \in table.column_names
                 /\ ~KindAccepted(rows[r].pairs[j][2],
                                  valid_types(table.attrs[rows[r].pairs[j][1]]))}} :
           r \in 1..Len(rows)}

\* C10: values() and set() on a builder with a bound table raise the
\* type-mismatch error at the call, naming the column, whenever some pair
\* names a known column and the kind of its value is not among the accepted
\* kinds of that column.
C10_TypeMismatchRaisedAtCall ==
    (last.op \in {"values", "set"} /\ Truthy(self._table)
       /\ Mismatches(self._table, RowsOf(last.op, last.args)) # {})
        => /\ last.raised = "TypeError"
           /\ last.column \in Mismatches(self._table, RowsOf(last.op, last.args))

\* -------------------------------------------------------------- execution
\* DjazzleQuery(conn) for every kind of connection handle
InitExec == \E conn \in Handles : Start(conn)

ExecValuesArgs == {PyDict(<<<<"name", PyStr("Ann")>>>>)}

NextExec ==
    \/ select(<<>>)
    \/ from_(users)
    \/ insert(users)
    \/ \E data \in ExecValuesArgs : values(data)
    \/ update(users)
    \/ \E data \in SetArgs : set(data)
    \/ delete(users)
    \/ returning(<<>>)
    \/ \E value \in BOOLEAN : as_model(value)
    \/ \E driver \in DriverOutcomes : _execute(driver)
    \/ \E driver \in DriverOutcomes : _aexecute(driver)

SpecExec == InitExec /\ [][NextExec]_vars

IsModeMismatch(raised) ==
    raised \in {"RuntimeError:Cannot use synchronous execute()",
                "RuntimeError:cursor", "RuntimeError:async_cursor"}

\* C4: synchronous execution on a builder whose adapter is async
\* (psycopg3_async, aiomysql, asyncmy) raises the connection-mode-mismatch
\* error, acquires no cursor and submits no statement.
C4_SyncOnAsyncAdapterFails ==
    (last.op = "call" /\ self.conn_adapter.is_async) =>
        /\ IsModeMismatch(last.raised)
        /\ last.acquired = <<>>
        /\ last.submitted = <<>>

\* C5: awaiting a query on a builder whose adapter is sync-only and not the
\* host ORM (psycopg2, psycopg3, mysqlclient, pymysql) fails with the
\* connection-mode-mismatch error and submits no statement on any
\* connection; stated here for the queries that build, where nothing but the
\* mode of the adapter can make the await fail before the statement is sent.
C5_AwaitOnSyncAdapterFails ==
    (/\ last.op = "await"
     /\ self.conn_adapter.conn_type
           \in {"psycopg2", "psycopg3", "mysqlclient", "pymysql"}
     /\ _build_sql(self).raised = "none") =>
        /\ IsModeMismatch(last.raised)
        /\ last.submitted = <<>>

\* ------------------------------------------------ conditions in statements
\* the conditions given to where(): comparisons with a value, with None and
\* with a column, a NULL check, a set membership, a range, and compounds
CondA == eq(U("age"), PyInt("20"))
CondB == eq(U("name"), PyStr("Ann"))
CondNone == ne(U("age"), None)
CondColumn == eq(U("id"), P("owner"))
CondIsNull == is_null(U("age"))
CondIn == in_array(U("id"), PyList(<<PyInt("1"), PyInt("2")>>))
CondBetween == between(U("age"), PyInt("18"), PyInt("65"))
CondLike == like(U("name"), PyStr("A%"))

Conditions ==
    {CondA, CondNone, CondColumn, CondIsNull, CondIn, CondBetween,
     or_(<<CondA, CondB>>),
     or_(<<CondBetween, and_(<<CondIn, CondLike>>)>>),
     and_(<<CondNone, CondB>>)}

WhereJoinArgs ==
    {<<"INNER", pets, eq(U("id"), P("owner"))>>,
     <<"LEFT", pets, gt(U("age"), PyInt("30"))>>}

NextWhere ==
    \/ select(<<>>)
    \/ from_(users)
    \/ insert(users)
    \/ \E data \in ValuesArgs : values(data)
    \/ update(users)
    \/ \E data \in SetArgs : set(data)
    \/ delete(users)
    \/ \E cond \in Conditions : where(<<cond>>)
    \/ \E j \in WhereJoinArgs : join(j[1], j[2], j[3])
    \/ build

SpecWhere == Init /\ [][NextWhere]_vars

\* C1: whenever build() succeeds, for every statement kind, the SQL has as
\* many placeholders as params has entries, and the i-th parameter is the
\* value the i-th placeholder of the SQL text, from the left, stands for.
C1_ParamsAlignWithPlaceholders ==
    (last.op = "build" /\ last.raised = "none") =>
        /\ CountToken(last.sql, "%s") = Len(last.params)
        /\ PlaceholdersOf(last.sql) = last.params

\* the conditions of the statement, those of the joins first
StatementConditions(q) ==
    [i \in 1..Len(q._joins) |-> q._joins[i][3]] \o q._conditions

\* C2: a comparison (eq, ne, lt, gt, lte, gte, like, ilike) whose value is no
\* column contributes one placeholder and one parameter, whatever the value
\* (None included), at the top level or inside and_/or_; a comparison with a
\* column contributes none.  So a select or delete all of whose conditions
\* are comparisons has as many placeholders, and as many parameters, as it
\* has comparisons with a value that is no column.
C2_ComparisonContributesOne ==
    LET leaves == Flatten([i \in 1..Len(StatementConditions(self)) |->
                              LeafConditions(StatementConditions(self)[i])])
        counted == {i \in 1..Len(leaves) : leaves[i].value.k # "Column"}
    IN (/\ last.op = "build" /\ last.raised = "none"
        /\ self._query_type \in {"select", "delete"}
        /\ \A i \in 1..Len(leaves) : leaves[i].k = "Condition") =>
           /\ CountToken(last.sql, "%s") = Cardinality(counted)
           /\ Len(last.params) = Cardinality(counted)
           /\ \A i \in 1..Len(last.params) : last.params[i].k # "Column"

\* ------------------------------------------- reading a WHERE clause as SQL
\* the tokens of the WHERE clause of a statement: what follows WHERE, up to
\* the clause that follows it
WhereTokens(sql) ==
    LET from == PositionOf(sql, "WHERE") + 1
        ends == {i \in from..Len(sql) :
                    sql[i].s \in {"ORDER BY", "LIMIT", "OFFSET", "RETURNING"}}
        to == IF ends = {} THEN Len(sql)
              ELSE (CHOOSE i \in ends : \A j \in ends : i <= j) - 1
    IN SubSeq(sql, from, to)

\* the number of tokens of the predicate that starts at t[i]: a column, what
\* it is tested with, and the operands of the test
PredicateLen(t, i) ==
    LET op == t[i + 1].s
    IN CASE op \in {"IS NULL", "IS NOT NULL"} -> 2
         [] op = "BETWEEN" -> 5
         [] op \in {"IN", "NOT IN"} ->
                (CHOOSE j \in (i + 2)..Len(t) :
                    /\ t[j].s = ")"
                    /\ \A m \in (i + 2)..(j - 1) : t[m].s # ")") - i + 1
         [] OTHER -> 3

\* SQL's reading of a search condition: OR of terms, a term an AND of
\* factors, a factor a predicate or a search condition in parentheses.  Each
\* gives the truth value read, under the assignment A of truth values to
\* predicates, and the position after what was read.
RECURSIVE SearchCondition(_, _, _), OrRest(_, _, _),
          BooleanTerm(_, _, _), AndRest(_, _, _), BooleanFactor(_, _, _)
SearchCondition(t, i, A) == OrRest(t, BooleanTerm(t, i, A), A)

OrRest(t, left, A) ==
    IF left.i <= Len(t) /\ t[left.i].s = "OR"
    THEN LET right == BooleanTerm(t, left.i + 1, A)
         IN OrRest(t, [v |-> left.v \/ right.v, i |-> right.i], A)
    ELSE left

BooleanTerm(t, i, A) == AndRest(t, BooleanFactor(t, i, A), A)

AndRest(t, left, A) ==
    IF left.i <= Len(t) /\ t[left.i].s = "AND"
    THEN LET right == BooleanFactor(t, left.i + 1, A)
         IN AndRest(t, [v |-> left.v /\ right.v, i |-> right.i], A)
    ELSE left

BooleanFactor(t, i, A) ==
    IF t[i].s = "("
    THEN LET inner == SearchCondition(t, i + 1, A)
         IN [v |-> inner.v, i |-> inner.i + 1]
    ELSE LET n == PredicateLen(t, i)
         IN [v |-> A[SubSeq(t, i, i + n - 1)], i |-> i + n]

\* the truth value of a condition as it was composed with and_/or_
RECURSIVE Holds(_, _)
Holds(cond, A) ==
    IF cond.k = "CompoundCondition"
    THEN IF cond.operator = "AND"
         THEN \A i \in 1..Len(cond.conditions) : Holds(cond.conditions[i], A)
         ELSE \E i \in 1..Len(cond.conditions) : Holds(cond.conditions[i], A)
    ELSE A[to_sql(cond).clause]

\* the predicates of the conditions of a statement, as rendered
Predicates(conditions) ==
    LET leaves == Flatten([i \in 1..Len(conditions) |->
                              LeafConditions(conditions[i])])
    IN {to_sql(leaves[i]).clause : i \in 1..Len(leaves)}

\* C3: the WHERE clause of a built statement whose top-level conditions are
\* c1..cn, read with SQL's precedence (AND binds tighter than OR), is true
\* under exactly the truth assignments of the leaf conditions under which
\* c1 AND ... AND cn is true.
C3_WhereIsConjunction ==
    (/\ last.op = "build" /\ last.raised = "none"
     /\ self._query_type \in {"select", "update", "delete"}
     /\ self._conditions # <<>>) =>
        \A A \in [Predicates(self._conditions) -> BOOLEAN] :
            LET read == SearchCondition(WhereTokens(last.sql), 1, A)
            IN /\ read.i = Len(WhereTokens(last.sql)) + 1
               /\ read.v = \A i \in 1..Len(self._conditions) :
                               Holds(self._conditions[i], A)

\* C11: value-kind validation rejects the pairs of values() and set() with the
\* type-mismatch error if and only if some pair names a known column and the
\* kind of its value is no member of the accepted kinds of that column,
\* where boolean and integer are distinct kinds: a boolean for a column that
\* accepts only integers is rejected.
C11_AcceptsIffKindIsMember ==
    (last.op \in {"values", "set"} /\ Truthy(self._table)) =>
        ((last.raised = "TypeError")
            <=> (Mismatches(self._table, RowsOf(last.op, last.args)) # {}))

\* ------------------------------------------------------- update building
\* mappings given to set(): keys in either order, a value None, a key that
\* is no column of users, and the empty mapping
UpdateData ==
    {PyDict(<<<<"name", PyStr("Ann")>>, <<"age", None>>>>),
     PyDict(<<<<"age", None>>, <<"name", PyStr("Ann")>>>>),
     PyDict(<<<<"age", PyInt("30")>>>>),
     PyDict(<<<<"email", None>>, <<"age", PyInt("30")>>,
              <<"name", PyStr("Bob")>>>>),
     PyDict(<<<<"nick", PyStr("x")>>>>),
     PyDict(<<>>)}

UpdateWhereArgs == {<<CondA>>, <<CondBetween>>, <<CondIsNull>>}

NextUpdate ==
    \/ update(users)
    \/ \E data \in UpdateData : set(data)
    \/ \E conditions \in UpdateWhereArgs : where(conditions)
    \/ \E count \in LimitArgs : limit(count)
    \/ \E fields \in ReturningArgs : returning(fields)
    \/ build

SpecUpdate == Init /\ [][NextUpdate]_vars

\* the parameters the conditions contribute, in the order of the conditions
ConditionParams(conditions) ==
    Flatten([i \in 1..Len(conditions) |->
                ExtendParams(to_sql(conditions[i]).value)])

\* C12: an update build emits one "col" = %s item and one parameter per key of
\* the assignment mapping, in the mapping's order, a key whose value is None
\* included (its parameter is None); the parameters of the where-conditions
\* follow all SET parameters.
C12_UpdateSetItemsAndParams ==
    (last.op = "build" /\ last.raised = "none" /\ self._query_type = "update") =>
        LET m == self._update_values.pairs
            n == Len(m)
            from == PositionOf(last.sql, "SET") + 1
            item(i) == SubSeq(last.sql, from + 4 * (i - 1), from + 4 * (i - 1) + 2)
        IN /\ Len(last.sql) >= from + 4 * n - 2
           /\ \A i \in 1..n :
                 /\ item(i)[1].s = Quote(m[i][1])
                 /\ item(i)[2].s = "="
                 /\ item(i)[3].s = "%s"
                 /\ i < n => last.sql[from + 4 * i - 1].s = ","
           /\ Len(last.sql) >= from + 4 * n - 1 =>
                 last.sql[from + 4 * n - 1].s \in {"WHERE", "LIMIT", "RETURNING"}
           /\ Len(last.params) >= n
           /\ \A i \in 1..n : last.params[i] = m[i][2]
           /\ SubSeq(last.params, n + 1, Len(last.params))
                 = ConditionParams(self._conditions)

\* an update was built that sets a column to None after another column and
\* has a where-condition with parameters
C12_Witness ==
    /\ last.op = "build" /\ last.raised = "none"
    /\ self._query_type = "update"
    /\ \E i \in 2..Len(self._update_values.pairs) :
          IsNone(self._update_values.pairs[i][2])
    /\ ConditionParams(self._conditions) # <<>>
    /\ \E i \in 1..Len(last.params) : IsNone(last.params[i])

\* ------------------------------------------------- compound conditions
\* the number of parentheses open after the first n tokens of a clause
RECURSIVE OpenAfter(_, _)
OpenAfter(clause, n) ==
    IF n = 0 THEN 0
    ELSE OpenAfter(clause, n - 1)
         + (IF clause[n].s = "(" THEN 1 ELSE IF clause[n].s = ")" THEN -1 ELSE 0)

\* the clause is one parenthesised group: it opens with a parenthesis that
\* is closed by its last token and not before
Enclosed(clause) ==
    /\ Len(clause) >= 2
    /\ clause[1].s = "(" /\ clause[Len(clause)].s = ")"
    /\ \A n \in 1..(Len(clause) - 1) : OpenAfter(clause, n) > 0
    /\ OpenAfter(clause, Len(clause)) = 0

\* the compound conditions of a condition, itself included
RECURSIVE CompoundNodes(_)
CompoundNodes(cond) ==
    IF cond.k = "CompoundCondition"
    THEN {cond} \cup UNION {CompoundNodes(cond.conditions[i]) :
                              i \in 1..Len(cond.conditions)}
    ELSE {}

\* C13: the rendering of every compound condition given to where(), and of
\* every compound nested in it, is enclosed in its own pair of parentheses
\* and so is each of its children; its parameters are the parameters of its
\* leaves, depth first and left to right.
C13_CompoundIsParenthesised ==
    \A i \in 1..Len(self._conditions) :
        \A node \in CompoundNodes(self._conditions[i]) :
            LET rendered == to_sql(node)
                leaves == LeafConditions(node)
            IN /\ Enclosed(rendered.clause)
               /\ rendered.value.items =
                     Flatten([j \in 1..Len(leaves) |->
                                 ExtendParams(to_sql(leaves[j]).value)])

\* ------------------------------------------------------- select building
\* joins with a column-to-column condition and with a condition that has a
\* parameter
SelectJoinArgs ==
    {<<"LEFT", pets, eq(U("id"), P("owner"))>>,
     <<"INNER", pets, gt(P("id"), PyInt("7"))>>}

SelectWhereArgs == {<<CondA>>, <<CondBetween>>}

NextSelect ==
    \/ \E fields \in SelectArgs : select(fields)
    \/ from_(users)
    \/ \E j \in SelectJoinArgs : join(j[1], j[2], j[3])
    \/ \E conditions \in SelectWhereArgs : where(conditions)
    \/ \E columns \in OrderArgs : order_by(columns)
    \/ \E count \in LimitArgs : limit(count)
    \/ \E count \in OffsetArgs : offset(count)
    \/ build

SpecSelect == Init /\ [][NextSelect]_vars

ClauseKeywords == {"SELECT", "FROM", "JOIN", "WHERE", "ORDER BY", "LIMIT", "OFFSET"}

\* the clause keywords of a statement, in the order they appear
KeywordsOf(sql) ==
    LET at == SelectSeq([i \in 1..Len(sql) |-> sql[i].s],
                        LAMBDA t : t \in ClauseKeywords)
    IN at

\* the position of the n-th token s of a statement
RECURSIVE NthPosition(_, _, _)
NthPosition(sql, s, n) ==
    LET first == PositionOf(sql, s)
    IN IF n = 1 THEN first
       ELSE first + NthPosition(SubSeq(sql, first + 1, Len(sql)), s, n - 1)

\* C14: a select build emits SELECT..FROM, then one <KIND> JOIN clause per
\* join in insertion order, then at most one WHERE, one ORDER BY, one LIMIT
\* and one OFFSET, in that order; params holds the parameters of the join
\* conditions in join order, followed by those of the where-conditions in
\* insertion order.
C14_SelectClauseOrder ==
    (last.op = "build" /\ last.raised = "none" /\ self._query_type = "select") =>
        LET joins == self._joins
        IN /\ KeywordsOf(last.sql) =
                 <<"SELECT", "FROM">>
                 \o [i \in 1..Len(joins) |-> "JOIN"]
                 \o (IF self._conditions # <<>> THEN <<"WHERE">> ELSE <<>>)
                 \o (IF self._order_by # <<>> THEN <<"ORDER BY">> ELSE <<>>)
                 \o (IF ~IsNone(self._limit) THEN <<"LIMIT">> ELSE <<>>)
                 \o (IF ~IsNone(self._offset) THEN <<"OFFSET">> ELSE <<>>)
           /\ \A i \in 1..Len(joins) :
                 LET at == NthPosition(last.sql, "JOIN", i)
                     clause == to_sql(joins[i][3]).clause
                 IN /\ last.sql[at - 1].s = joins[i][1]
                    /\ last.sql[at + 1].s = Quote(joins[i][2].db_table_name)
                    /\ last.sql[at + 2].s = "ON"
                    /\ SubSeq(last.sql, at + 3, at + 2 + Len(clause)) = clause
           /\ last.params =
                 ConditionParams([i \in 1..Len(joins) |-> joins[i][3]])
                 \o ConditionParams(self._conditions)

\* a select was built with a LEFT join followed by an INNER join whose
\* condition has a parameter, and with WHERE, ORDER BY, LIMIT and OFFSET
C14_Witness ==
    /\ last.op = "build" /\ last.raised = "none"
    /\ self._query_type = "select"
    /\ Len(self._joins) = 2
    /\ self._joins[1][1] = "LEFT" /\ self._joins[2][1] = "INNER"
    /\ ConditionParams(<<self._joins[2][3]>>) # <<>>
    /\ ConditionParams(self._conditions) # <<>>
    /\ self._order_by # <<>>
    /\ ~IsNone(self._limit) /\ ~IsNone(self._offset)

\* ------------------------------------------------------ cursor discipline
\* the positions of an event in the events of an execution
PositionsOf(events, e) == {i \in 1..Len(events) : events[i] = e}

DriverErrors == {"DriverError:" \o d : d \in DriverOutcomes \ {"ok"}}

\* C15: in every execution (sync, native async, host-ORM async) a cursor is
\* acquired at most once; on an acquired cursor exactly one statement is
\* submitted, once, and the cursor is released exactly once, after the
\* statement and the fetch, whether they succeeded or raised; the execution
\* returns or raises only after the release, and what it raises then is the
\* driver's error.
C15_CursorScopedOneStatement ==
    last.op \in {"call", "await"} =>
        LET e == last.events
            acquire == PositionsOf(e, "acquire")
            execute == PositionsOf(e, "execute")
            fetch == PositionsOf(e, "fetch")
            release == PositionsOf(e, "release")
            end == PositionsOf(e, "raise") \cup PositionsOf(e, "return")
        IN /\ Cardinality(acquire) <= 1
           /\ Len(last.acquired) = Cardinality(acquire)
           /\ acquire = {} =>
                 /\ execute = {} /\ fetch = {} /\ release = {}
                 /\ last.submitted = <<>>
           /\ acquire # {} =>
                 /\ Cardinality(execute) = 1 /\ Len(last.submitted) = 1
                 /\ last.submitted[1].on = last.acquired[1]
                 /\ Cardinality(release) = 1 /\ last.released = last.acquired
                 /\ Cardinality(fetch) <= 1
                 /\ \A a \in acquire, x \in execute, r \in release, z \in end :
                       /\ a < x /\ x < r /\ r < z
                       /\ \A f \in fetch : x < f /\ f < r
                 /\ end = {Len(e)}
                 /\ (e[Len(e)] = "raise") <=> (last.raised \in DriverErrors)
                 /\ (e[Len(e)] = "return") <=> (last.raised = "none")

\* an execution whose fetch raised: the cursor was released and the driver's
\* error reached the caller
C15_Witness ==
    /\ last.op \in {"call", "await"}
    /\ last.events = <<"acquire", "execute", "fetch", "release", "raise">>
    /\ last.raised = "DriverError:fetch raises"

\* ------------------------------------------------------------ the adapter
\* handles of other shapes: a host-ORM wrapper that lives in a psycopg2
\* module, a handle of an unknown driver, a psycopg handle with __aenter__
\* but neither execute nor an AsyncConnection class, the _mysql module, and
\* a module whose name has two driver names in it
DjangoPsycopg2Wrapper ==
    Handle("django:replica",
           <<"p","s","y","c","o","p","g","2",".","p","o","o","l">>,
           <<"W","r","a","p","p","e","r">>,
           {"vendor", "alias", "cursor"}, "replica")
Sqlite3Conn ==
    Handle("sqlite3", <<"s","q","l","i","t","e","3">>,
           <<"C","o","n","n","e","c","t","i","o","n">>, {"cursor"}, "")
PsycopgPoolConn ==
    Handle("psycopg_pool", <<"p","s","y","c","o","p","g","_","p","o","o","l">>,
           <<"P","o","o","l","e","d">>, {"cursor", "__aenter__"}, "")
LowLevelMySQLConn ==
    Handle("_mysql", <<"_","m","y","s","q","l">>,
           <<"c","o","n","n","e","c","t","i","o","n">>, {"cursor"}, "")
AsyncmyPymysqlConn ==
    Handle("asyncmy.pymysql",
           <<"a","s","y","n","c","m","y",".","p","y","m","y","s","q","l">>,
           <<"C","o","n","n","e","c","t","i","o","n">>, {"cursor"}, "")

AdapterHandles ==
    Handles \cup {DjangoPsycopg2Wrapper, Sqlite3Conn, PsycopgPoolConn,
                  LowLevelMySQLConn, AsyncmyPymysqlConn}

InitAdapter == \E conn \in AdapterHandles : Start(conn)

\* self.conn_adapter.cursor(), called directly
conn_adapter_cursor ==
    /\ UNCHANGED <<self, chain>>
    /\ last' = [op |-> "cursor"] @@ cursor(self.conn_adapter)

\* await self.conn_adapter.async_cursor(), called directly
conn_adapter_async_cursor ==
    /\ UNCHANGED <<self, chain>>
    /\ last' = [op |-> "async_cursor"] @@ async_cursor(self.conn_adapter)

\* self.conn_adapter.get_db_alias()
conn_adapter_get_db_alias ==
    /\ UNCHANGED <<self, chain>>
    /\ last' = [op |-> "get_db_alias", raised |-> "none",
                alias |-> get_db_alias(self.conn_adapter)]

NextAdapter ==
    \/ select(<<>>)
    \/ from_(users)
    \/ insert(users)
    \/ \E data \in ExecValuesArgs : values(data)
    \/ \E value \in BOOLEAN : as_model(value)
    \/ conn_adapter_cursor
    \/ conn_adapter_async_cursor
    \/ conn_adapter_get_db_alias
    \/ \E driver \in DriverOutcomes : _execute(driver)
    \/ \E driver \in DriverOutcomes : _aexecute(driver)

SpecAdapter == InitAdapter /\ [][NextAdapter]_vars

\* C16: cursor() fails with the usage error exactly when the adapter is
\* async, async_cursor() exactly when it is not; so for every adapter exactly
\* one of the two gives a cursor, and a call that fails asks nothing of the
\* connection.
C16_CursorMatchesMode ==
    /\ last.op = "cursor" =>
          /\ (last.raised # "none") <=> self.conn_adapter.is_async
          /\ last.raised # "none" =>
                last.raised = "RuntimeError:cursor" /\ last.on = ""
          /\ last.raised = "none" => last.on = self.conn.id
    /\ last.op = "async_cursor" =>
          /\ (last.raised # "none") <=> ~self.conn_adapter.is_async
          /\ last.raised # "none" =>
                last.raised = "RuntimeError:async_cursor" /\ last.on = ""
          /\ last.raised = "none" => last.on = self.conn.id
    /\ (cursor(self.conn_adapter).raised = "none")
          # (async_cursor(self.conn_adapter).raised = "none")

\* cursor() called on an async adapter failed
C16_Witness ==
    /\ last.op = "cursor"
    /\ self.conn_adapter.is_async
    /\ last.raised = "RuntimeError:cursor"

\* the driver families a module name selects, in their precedence, each with
\* the names that select it
ModuleFamilies ==
    <<[family |-> "psycopg2", names |-> {<<"p","s","y","c","o","p","g","2">>}],
      [family |-> "psycopg3", names |-> {<<"p","s","y","c","o","p","g">>}],
      [family |-> "mysqlclient", names |-> {<<"M","y","S","Q","L","d","b">>,
                                            <<"_","m","y","s","q","l">>}],
      [family |-> "pymysql", names |-> {<<"p","y","m","y","s","q","l">>}],
      [family |-> "aiomysql", names |-> {<<"a","i","o","m","y","s","q","l">>}],
      [family |-> "asyncmy", names |-> {<<"a","s","y","n","c","m","y">>}]>>

\* the families whose names the module name of a handle contains
Selected(conn) ==
    {i \in 1..Len(ModuleFamilies) :
        \E name \in ModuleFamilies[i].names : Contains(name, conn.module)}

\* the family the shape of a handle gives it
FamilyOfShape(conn) ==
    IF {"vendor", "alias"} \subseteq conn.attrs THEN "django"
    ELSE IF Selected(conn) = {} THEN "django"
    ELSE ModuleFamilies[CHOOSE i \in Selected(conn) :
                           \A j \in Selected(conn) : i <= j].family

\* C17: the adapter of a builder has the one driver family its handle's shape
\* gives: host ORM for a handle with both vendor and alias whatever its
\* module, else the first of psycopg2, psycopg3, mysqlclient, pymysql,
\* aiomysql, asyncmy that the module name selects (psycopg3 async only if the
\* handle has __aenter__), else host ORM; is_async is true exactly for
\* psycopg3_async, aiomysql and asyncmy; and no builder or adapter operation
\* changes the family or is_async.
C17_FamilyFromShape ==
    /\ [](LET adapter == self.conn_adapter
              family == FamilyOfShape(self.conn)
          IN /\ adapter.conn = self.conn
             /\ IF family = "psycopg3"
                THEN /\ adapter.conn_type \in {"psycopg3", "psycopg3_async"}
                     /\ adapter.conn_type = "psycopg3_async" =>
                           "__aenter__" \in self.conn.attrs
                ELSE adapter.conn_type = family
             /\ adapter.is_async <=>
                   adapter.conn_type \in {"psycopg3_async", "aiomysql", "asyncmy"})
    /\ [][/\ self.conn_adapter'.conn_type = self.conn_adapter.conn_type
          /\ self.conn_adapter'.is_async = self.conn_adapter.is_async]_vars

\* a statement ran on an adapter of each kind of shape: a host-ORM wrapper in
\* a psycopg2 module, and a handle whose module name selects two families
C17_Witness ==
    /\ last.op \in {"call", "await"}
    /\ last.raised = "none"
    /\ \/ self.conn = DjangoPsycopg2Wrapper /\ self.conn_adapter.conn_type = "django"
       \/ self.conn = AsyncmyPymysqlConn /\ self.conn_adapter.conn_type = "pymysql"

\* ------------------------------------------------------------ result shape
\* C18: an insert, update or delete that ran returns None when returning()
\* was not called in its chain and a list of column-name-to-value mappings
\* when it was, whatever the as_model flag; a select that ran returns a list
\* of mappings, or a list of model instances when as_model is set.
C18_ResultShapeByKind ==
    (last.op \in {"call", "await"} /\ last.raised = "none") =>
        IF self._query_type = "select"
        THEN last.result = (IF self._as_model THEN "models" ELSE "mappings")
        ELSE /\ self._query_type \in {"insert", "update", "delete"}
             /\ IsNone(self._returning_fields) => last.result = "None"
             /\ ~IsNone(self._returning_fields) => last.result = "mappings"

\* an insert with returning() ran on a builder whose as_model flag is set
C18_Witness ==
    /\ last.op \in {"call", "await"} /\ last.raised = "none"
    /\ self._query_type = "insert"
    /\ ~IsNone(self._returning_fields)
    /\ self._as_model
    /\ last.result = "mappings"

\* -------------------------------------------------------- RETURNING clause
RF(name) == PyStr(name)

\* arguments of returning(): none, one field, two fields in either order,
\* and the star by itself and after a field
ReturningFieldArgs ==
    {<<>>, <<RF("id")>>, <<RF("id"), RF("name")>>, <<RF("name"), RF("id")>>,
     <<RF("*")>>, <<RF("id"), RF("*")>>}

NextReturning ==
    \/ insert(users)
    \/ \E data \in ValuesArgs : values(data)
    \/ update(users)
    \/ \E data \in SetArgs : set(data)
    \/ delete(users)
    \/ \E conditions \in WhereArgs : where(conditions)
    \/ \E count \in LimitArgs : limit(count)
    \/ \E fields \in ReturningFieldArgs : returning(fields)
    \/ build

SpecReturning == Init /\ [][NextReturning]_vars

\* the statement from its RETURNING keyword on
ReturningTail(sql) == SubSeq(sql, PositionOf(sql, "RETURNING"), Len(sql))

\* the texts of a sequence of tokens
TextOf(tokens) == [i \in 1..Len(tokens) |-> tokens[i].s]

QuotedList(fields) ==
    Join(",", [i \in 1..Len(fields) |-> <<Quote(fields[i].x)>>])

\* what every reading of the RETURNING clause shares: none without a call,
\* one clause with a call, last in the statement, after WHERE and LIMIT, and
\* adding no parameters
ReturningIsLastAndBare(fields_text) ==
    LET rf == self._returning_fields
        bare == _build_sql([self EXCEPT !._returning_fields = None])
    IN /\ IsNone(rf) => ~HasToken(last.sql, "RETURNING")
       /\ ~IsNone(rf) =>
             /\ CountToken(last.sql, "RETURNING") = 1
             /\ TextOf(ReturningTail(last.sql)) = <<"RETURNING">> \o fields_text
             /\ \A kw \in {"WHERE", "LIMIT", "VALUES", "SET"} :
                   HasToken(last.sql, kw) =>
                      PositionOf(last.sql, kw) < PositionOf(last.sql, "RETURNING")
             /\ last.sql = bare.sql \o ReturningTail(last.sql)
       /\ last.params = bare.params

BuiltWrite ==
    /\ last.op = "build" /\ last.raised = "none"
    /\ self._query_type \in {"insert", "update", "delete"}

\* C19 as stated: with no returning() call the statement has no RETURNING; a
\* call with no field gives RETURNING *; a call with fields f1..fk gives
\* RETURNING "f1", ..., "fk" in argument order; RETURNING is the last
\* clause and adds no parameters.
C19_ReturningAsStated ==
    BuiltWrite =>
        ReturningIsLastAndBare(
            IF IsNone(self._returning_fields) THEN <<>>
            ELSE IF self._returning_fields.items = <<RF("*")>> THEN <<"*">>
            ELSE QuotedList(self._returning_fields.items))

\* C19 amended: as stated, except that a call with the field * among its
\* fields gives RETURNING *, like a call with no field; only fields none of
\* which is * are listed, quoted, in argument order.
C19_ReturningStarAmongFields ==
    BuiltWrite =>
        ReturningIsLastAndBare(
            IF IsNone(self._returning_fields) THEN <<>>
            ELSE IF \E i \in 1..Len(self._returning_fields.items) :
                       self._returning_fields.items[i] = RF("*")
            THEN <<"*">>
            ELSE QuotedList(self._returning_fields.items))

\* an update with a where-condition and a limit was built after
\* returning("name", "id")
C19_Witness ==
    /\ BuiltWrite
    /\ self._query_type = "update"
    /\ self._conditions # <<>> /\ ~IsNone(self._limit)
    /\ self._returning_fields = PyList(<<RF("name"), RF("id")>>)
    /\ TextOf(ReturningTail(last.sql)) = <<"RETURNING", Quote("name"), ",", Quote("id")>>

\* ------------------------------------------------ existence validation
\* fields given to select(): a column of users, a name that is none, both,
\* an aliased unknown name, a qualified unknown name, and a Column of pets
ValidateSelectArgs ==
    {<<>>,
     <<FieldStr(<<"n","a","m","e">>)>>,
     <<FieldStr(<<"n","i","c","k">>)>>,
     <<FieldStr(<<"n","a","m","e">>), FieldStr(<<"z","i","p">>),
       FieldStr(<<"n","i","c","k">>)>>,
     <<FieldStr(<<"n","i","c","k"," ","A","S"," ","n">>)>>,
     <<FieldStr(<<"p","e","t","s",".","n","i","c","k">>)>>,
     <<P("species")>>}

CondSpecies == eq(P("species"), PyStr("cat"))

\* conditions on a column of users, on a column users has not, and compounds
\* that hold one at depth one and at depth two
ValidateWhereArgs ==
    {<<CondA>>, <<CondSpecies>>,
     <<and_(<<CondA, CondSpecies>>)>>,
     <<or_(<<CondA, and_(<<CondB, is_null(P("owner"))>>)>>)>>}

ValidateOrderArgs == {<<desc(U("name"))>>, <<asc(P("species"))>>, <<P("owner")>>}

NextValidate ==
    \/ \E fields \in ValidateSelectArgs : select(fields)
    \/ from_(users)
    \/ \E conditions \in ValidateWhereArgs : where(conditions)
    \/ \E columns \in ValidateOrderArgs : order_by(columns)
    \/ build

SpecValidate == Init /\ [][NextValidate]_vars

\* the column names the nodes of a condition name, depth first, left to right
RECURSIVE ColumnsNamed(_)
ColumnsNamed(cond) ==
    IF "conditions" \in DOMAIN cond
    THEN Flatten([i \in 1..Len(cond.conditions) |->
                     ColumnsNamed(cond.conditions[i])])
    ELSE <<cond.column.column_name>>

\* the column a plain-string field names: the field, or what precedes its
\* `as`; nothing for a field that is no string or holds a "."
NamedByField(f) ==
    IF f.k # "str" \/ HasDot(f.chars) THEN <<>>
    ELSE IF HasAs(f)
    THEN <<Concat(JoinWords([i \in 1..(AsIndex(Split(f.chars)) - 1) |->
                                Split(f.chars)[i]]))>>
    ELSE <<Concat(f.chars)>>

\* the column references of a select, in the order fields, conditions,
\* order-by targets
References(q) ==
    LET fields == IF Truthy(q._fields) THEN q._fields.items ELSE <<>>
        at(place, names) == [i \in 1..Len(names) |->
                                [place |-> place, name |-> names[i]]]
    IN at("field", Flatten([i \in 1..Len(fields) |-> NamedByField(fields[i])]))
       \o at("condition", Flatten([i \in 1..Len(q._conditions) |->
                                      ColumnsNamed(q._conditions[i])]))
       \o at("order by", [i \in 1..Len(q._order_by) |->
                            IF q._order_by[i].k = "OrderDirection"
                            THEN q._order_by[i].column.column_name
                            ELSE q._order_by[i].column_name])

Offending(q) ==
    {i \in 1..Len(References(q)) :
        References(q)[i].name \notin q._table.column_names}

\* C20: building a select on a bound table raises the unknown-column error
\* and gives no SQL whenever a plain-string field without ".", the column of
\* a where-condition at any depth of and_/or_, or an order-by target names
\* no column of the table; the error is for the first offending reference,
\* fields before conditions before order-by targets.
C20_UnknownColumnRaised ==
    (/\ last.op = "build" /\ self._query_type = "select"
     /\ Truthy(self._table) /\ Offending(self) # {}) =>
        LET first == References(self)[CHOOSE i \in Offending(self) :
                                         \A j \in Offending(self) : i <= j]
        IN /\ last.raised = "InvalidColumnError"
           /\ last.column = first.name
           /\ last.place = first.place
           /\ "sql" \notin DOMAIN last

\* a build raised for the column of a condition two compounds deep, although
\* an order-by target offends too
C20_Witness ==
    /\ last.op = "build" /\ last.raised = "InvalidColumnError"
    /\ last.place = "condition" /\ last.column = "owner_id"
    /\ Len(self._conditions) = 1
    /\ self._conditions[1].k = "CompoundCondition"
    /\ self._order_by = <<asc(P("species"))>>

\* ------------------------------------- existence check of values and set
\* the keys of the rows that are not column names of the table
UnknownKeys(table, rows) ==
    UNION {{rows[r].pairs[i][1] : i \in
              {j \in 1..Len(rows[r].pairs) :
                 rows[r].pairs[j][1] \notin table.column_names}} :
           r \in 1..Len(rows)}

\* the rows an insert or update builder holds for its statement
StoredRows(q) ==
    IF q._query_type = "insert" /\ Truthy(q._insert_values)
    THEN q._insert_values.items
    ELSE IF q._query_type = "update" /\ Truthy(q._update_values)
    THEN <<q._update_values>>
    ELSE <<>>

\* C21: existence and type validation are separate passes.  A key of
\* values()/set() that is not a column of the table never makes the call
\* raise (a call that raises names a column of the table, and a call whose
\* known keys all have accepted kinds does not raise); the unknown-column
\* error comes from build() of that insert/update, which then returns no SQL.
C21_UnknownKeyRaisedAtBuild ==
    /\ (/\ last.op \in {"values", "set"}
        /\ Truthy(self._table)
        /\ RowsOf(last.op, last.args) # <<>>) =>
           /\ last.raised \in {"none", "TypeError"}
           /\ last.raised = "TypeError" =>
                 /\ last.column \in self._table.column_names
                 /\ last.column \in Mismatches(self._table,
                                               RowsOf(last.op, last.args))
           /\ Mismatches(self._table, RowsOf(last.op, last.args)) = {} =>
                 last.raised = "none"
    /\ (/\ last.op = "build"
        /\ Truthy(self._table)
        /\ UnknownKeys(self._table, StoredRows(self)) # {}) =>
           /\ last.raised = "InvalidColumnError"
           /\ last.column \in UnknownKeys(self._table, StoredRows(self))
           /\ "sql" \notin DOMAIN last

\* an insert whose values() named an unknown key was built
C21_Witness ==
    /\ last.op = "build"
    /\ self._query_type = "insert"
    /\ Truthy(self._table)
    /\ UnknownKeys(self._table, StoredRows(self)) # {}
    /\ Mismatches(self._table, StoredRows(self)) = {}
    /\ last.raised = "InvalidColumnError"

\* ------------------------------------------- columns of relation fields
\* the model a table descriptor was made from
ModelOf(table) == CHOOSE m \in {User, Pet} : m.name = table.model_class

\* the relation fields of a model
RelationFields(model) ==
    {model.fields[i] : i \in {j \in 1..Len(model.fields) :
                                "ForeignKey" \in FieldMRO(model.fields[j].cls)}}

\* C22: for every relation field with logical name n and physical column c
\* of the bound table, the descriptor holds a column keyed n and a column
\* keyed n_id, and both render as the identifier "c".
C22_IdColumnIsForeignKeyColumn ==
    Truthy(self._table) =>
        \A field \in RelationFields(ModelOf(self._table)) :
            /\ field.name \in self._table.column_names
            /\ (field.name \o "_id") \in self._table.column_names
            /\ full_name(self._table.attrs[field.name])
                  = Tok(Quote(field.column))
            /\ full_name(self._table.attrs[field.name \o "_id"])
                  = Tok(Quote(field.column))

\* ------------------------------------- columns of the table and of joins
\* a model with a field whose column is renamed (db_column) and with fields
\* of a class field_type_map has no entry for, one of them nullable
Device ==
    [name |-> "Device", db_table |-> "tests_device",
     fields |-> << Field("id", "id", "BigAutoField", FALSE),
                   Field("address", "ip_address", "GenericIPAddressField", FALSE),
                   Field("gateway", "gateway", "GenericIPAddressField", TRUE),
                   Field("label", "label", "CharField", TRUE) >>]

devices == TableFromModel(Device)

\* selects from either table, with or without a join of pets, whose
\* conditions and order-by targets are columns of either table
OwnCondArgs ==
    {<<eq(P("species"), PyStr("cat"))>>, <<eq(P("owner_id"), PyInt("1"))>>,
     <<eq(P("owner"), PyInt("1"))>>, <<eq(P("name"), PyStr("Rex"))>>,
     <<eq(U("age"), PyInt("20"))>>,
     <<eq(devices.attrs["address"], PyStr("10.0.0.1"))>>}

OwnOrderArgs == {<<P("owner_id")>>, <<desc(P("species"))>>, <<U("name")>>}

NextColumns ==
    \/ select(<<>>)
    \/ \E table \in Tables \cup {devices} : from_(table)
    \/ join("LEFT", pets, eq(U("id"), P("owner")))
    \/ \E conditions \in OwnCondArgs : where(conditions)
    \/ \E columns \in OwnOrderArgs : order_by(columns)
    \/ build

SpecColumns == Init /\ [][NextColumns]_vars

\* the Column objects a table descriptor holds
ColumnsOf(table) == {table.attrs[n] : n \in DOMAIN table.attrs}

\* the column an order-by target stands for
OrderColumn(order_item) ==
    IF order_item.k = "OrderDirection" THEN order_item.column ELSE order_item

RECURSIVE ConditionColumns(_)
\* the columns of the simple conditions of a condition
ConditionColumns(cond) ==
    IF "conditions" \in DOMAIN cond
    THEN UNION {ConditionColumns(cond.conditions[i]) :
                  i \in 1..Len(cond.conditions)}
    ELSE {cond.column}

\* the columns the where-conditions and the order-by targets of a builder use
UsedColumns(q) ==
    UNION {ConditionColumns(q._conditions[i]) : i \in 1..Len(q._conditions)}
    \cup {OrderColumn(q._order_by[i]) : i \in 1..Len(q._order_by)}

\* C23: a select from a table whose where-conditions and order-by targets
\* all use Column objects of that same table (the relation columns and their
\* n_id columns included) never fails to build with an unknown-column error.
C23_OwnColumnsPassValidation ==
    (/\ last.op = "build"
     /\ self._query_type = "select"
     /\ Truthy(self._table)
     /\ UsedColumns(self) # {}
     /\ UsedColumns(self) \subseteq ColumnsOf(self._table)) =>
        last.raised # "InvalidColumnError"

\* ------------------------------------------------ None and nullability
\* mappings that set None, and a value, on mapped and unmapped columns,
\* nullable or not
NullDicts ==
    {PyDict(<<<<"age", None>>>>), PyDict(<<<<"name", None>>>>),
     PyDict(<<<<"address", None>>>>), PyDict(<<<<"gateway", None>>>>),
     PyDict(<<<<"label", None>>>>), PyDict(<<<<"id", None>>>>),
     PyDict(<<<<"label", PyStr("lab")>>, <<"gateway", None>>>>),
     PyDict(<<<<"name", PyStr("Ann")>>, <<"age", None>>>>),
     PyDict(<<<<"address", PyInt("7")>>, <<"label", None>>>>),
     PyDict(<<<<"gateway", PyBool("True")>>, <<"address", None>>>>)}

NullData ==
    NullDicts \cup {PyList(<<PyDict(<<<<"label", None>>>>),
                             PyDict(<<<<"address", None>>, <<"id", None>>>>)>>)}

NextNull ==
    \/ \E table \in {users, devices} : insert(table)
    \/ \E table \in {users, devices} : update(table)
    \/ \E data \in NullData : values(data)
    \/ \E data \in NullDicts : set(data)
    \/ build

SpecNull == Init /\ [][NextNull]_vars

\* the field classes field_type_map lists
MappedClasses == {field_type_map[i][1] : i \in 1..Len(field_type_map)}

\* a field class is mapped when it is, or derives from, a listed class
IsMapped(cls) == FieldMRO(cls) \cap MappedClasses # {}

\* the kinds field_type_map gives for a listed class
KindsOfClass(cls) ==
    field_type_map[CHOOSE i \in 1..Len(field_type_map) :
                      field_type_map[i][1] = cls][2]

\* a column accepts None: its field is nullable, or its field class is
\* unmapped, or it has no field metadata
AcceptsNone(column) ==
    \/ IsNone(column.django_field)
    \/ column.django_field.null
    \/ ~IsMapped(column.django_field.cls)

\* the columns whose accepted kinds are compared: every column of the three
\* tables and a column without field metadata
AllColumns ==
    ColumnsOf(users) \cup ColumnsOf(pets) \cup ColumnsOf(devices)
    \cup {Column("tests_user", "legacy", None)}

\* the pairs of the rows of a call, in the order validation visits them
PairsOf(rows) ==
    Flatten([r \in 1..Len(rows) |->
                [i \in 1..Len(rows[r].pairs) |->
                    [row_idx |-> r - 1, col_name |-> rows[r].pairs[i][1],
                     value |-> rows[r].pairs[i][2]]]])

\* C24: the accepted kinds of a column are the kinds of its field class in
\* the fixed mapping, plus NoneType exactly when the field is nullable; a
\* column of an unmapped class or without field metadata accepts every kind.
\* So values()/set() raise the type-mismatch error for None on a
\* non-nullable mapped column, and never raise because of a None given to a
\* nullable or unmapped column.
C24_NoneAcceptedIffNullableOrUnmapped ==
    /\ \A column \in AllColumns :
          IF IsNone(column.django_field) \/ ~IsMapped(column.django_field.cls)
          THEN "object" \in valid_types(column)
          ELSE /\ \A cls \in FieldMRO(column.django_field.cls) \cap MappedClasses :
                     valid_types(column) \ {"NoneType"} = KindsOfClass(cls)
               /\ ("NoneType" \in valid_types(column)) <=> column.django_field.null
    /\ (/\ last.op \in {"values", "set"}
        /\ Truthy(self._table)
        /\ RowsOf(last.op, last.args) # <<>>) =>
           LET pairs == PairsOf(RowsOf(last.op, last.args))
               nones == {i \in 1..Len(pairs) :
                           /\ pairs[i].col_name \in self._table.column_names
                           /\ IsNone(pairs[i].value)}
           IN /\ (\E i \in nones :
                     ~AcceptsNone(self._table.attrs[pairs[i].col_name]))
                    => last.raised = "TypeError"
              /\ last.raised = "TypeError" =>
                    \A i \in nones :
                        (pairs[i].col_name = last.column
                         /\ pairs[i].row_idx = last.row_idx)
                           => ~AcceptsNone(self._table.attrs[pairs[i].col_name])

\* set() gave None to an unmapped non-nullable column and to nothing else,
\* and was accepted
C24_Witness ==
    /\ last.op = "set"
    /\ self._table = devices
    /\ last.args = PyDict(<<<<"address", None>>>>)
    /\ ~devices.attrs["address"].django_field.null
    /\ last.raised = "none"

\* ------------------------------------------- order of a sync execution
\* the steps of an execution that ran, as the spec orders them
IsOrderedRun(events) ==
    \/ events = <<"acquire", "execute", "release", "return">>
    \/ events = <<"acquire", "execute", "fetch", "release", "return">>
    \/ events = <<"acquire", "execute", "release", "raise">>
    \/ events = <<"acquire", "execute", "fetch", "release", "raise">>
    \/ events = <<"raise">>

\* C25: a synchronous execution looks at the mode of the adapter first: on
\* an async adapter it raises the connection-mode-mismatch error whatever
\* the builder holds, even a state build() would reject.  On a sync adapter
\* a failing build() means no cursor is acquired, and otherwise the steps
\* are acquire, execute, fetch, release in that order.
C25_ModeCheckedBeforeBuild ==
    last.op = "call" =>
        /\ self.conn_adapter.is_async =>
              /\ IsModeMismatch(last.raised)
              /\ last.events = <<>>
        /\ (~self.conn_adapter.is_async /\ _build_sql(self).raised # "none") =>
              /\ last.raised = _build_sql(self).raised
              /\ last.acquired = <<>>
              /\ last.events = <<>>
        /\ (~self.conn_adapter.is_async /\ _build_sql(self).raised = "none") =>
              IsOrderedRun(last.events)

\* ------------------------------------------------ read-only introspection
ReadCondArgs ==
    {<<CondIn>>, <<or_(<<CondBetween, and_(<<CondIn, CondLike>>)>>)>>}

NextRead ==
    \/ select(<<>>)
    \/ from_(users)
    \/ insert(users)
    \/ \E data \in ValuesArgs : values(data)
    \/ update(users)
    \/ \E data \in SetArgs : set(data)
    \/ delete(users)
    \/ \E conditions \in ReadCondArgs : where(conditions)
    \/ \E j \in JoinArgs : join(j[1], j[2], j[3])
    \/ \E columns \in OrderArgs : order_by(columns)
    \/ \E count \in LimitArgs : limit(count)
    \/ returning(<<>>)
    \/ build

SpecRead == Init /\ [][NextRead]_vars

InitAsync == \E conn \in {DjangoDefault, AioMySQLConn} : Start(conn)

\* what an execution that is suspended at its I/O point holds: the statement
\* it submitted, the result shape of the builder when the statement was
\* built and, on the host-ORM path only, the locals query_type,
\* returning_fields and as_model it copied before it handed over to the
\* worker thread
Suspended(q, on, built, captured) ==
    [op |-> "suspended", raised |-> "none", on |-> on,
     submitted |-> <<[on |-> on, sql |-> built.sql, params |-> built.params]>>,
     built_shape |-> ResultShape(q._query_type, q._returning_fields, q._as_model),
     captured |-> captured]

\* the locals execute_query closes over
Captured(q) ==
    [path |-> "thread", query_type |-> q._query_type,
     returning_fields |-> q._returning_fields, as_model |-> q._as_model]

\* _execute_native_async copies nothing: it reads the builder when it resumes
NotCaptured == [path |-> "native"]

\* await query, up to the point where the statement is submitted
_aexecute_begin ==
    LET built == _build_sql(self)
        cur == async_cursor(self.conn_adapter)
    IN /\ last.op # "suspended"
       /\ UNCHANGED <<self, chain>>
       /\ last' = IF built.raised # "none" THEN Failed("await", built.raised)
                  ELSE IF self.conn_adapter.is_async
                  THEN (IF cur.raised # "none" THEN Failed("await", cur.raised)
                        ELSE Suspended(self, cur.on, built, NotCaptured))
                  ELSE Suspended(self, ThreadLocalConn, built, Captured(self))

\* the suspended execution resumes: it picks the branch that shapes its
\* result from the copied locals on the host-ORM path, from the attributes
\* of the builder on the native path
_aexecute_resume ==
    /\ last.op = "suspended"
    /\ UNCHANGED <<self, chain>>
    /\ last' = [op |-> "await", raised |-> "none", on |-> last.on,
                submitted |-> last.submitted,
                built_shape |-> last.built_shape,
                path |-> last.captured.path,
                result |-> IF last.captured.path = "thread"
                           THEN ResultShape(last.captured.query_type,
                                            last.captured.returning_fields,
                                            last.captured.as_model)
                           ELSE ResultShape(self._query_type,
                                            self._returning_fields,
                                            self._as_model)]

\* while the execution is suspended another task makes a chain call on the
\* same builder: a verb, returning() or as_model()
other_task_calls ==
    /\ last.op = "suspended"
    /\ UNCHANGED last
    /\ \/ /\ self' = [_reset_query_state(self) EXCEPT
                         !._query_type = "select", !._fields = None]
          /\ chain' = Started("select")
       \/ /\ self' = [_reset_query_state(self) EXCEPT
                         !._query_type = "delete", !._table = users]
          /\ chain' = Started("delete")
       \/ /\ self' = [self EXCEPT !._returning_fields = PyList(<<PyStr("*")>>)]
          /\ UNCHANGED chain
       \/ /\ \E value \in BOOLEAN : self' = [self EXCEPT !._as_model = value]
          /\ UNCHANGED chain

NextAsync ==
    \/ last.op # "suspended" /\ select(<<>>)
    \/ last.op # "suspended" /\ from_(users)
    \/ last.op # "suspended" /\ delete(users)
    \/ last.op # "suspended" /\ returning(<<>>)
    \/ last.op # "suspended" /\ \E value \in BOOLEAN : as_model(value)
    \/ _aexecute_begin
    \/ other_task_calls
    \/ _aexecute_resume

SpecAsync == InitAsync /\ [][NextAsync]_vars

\* C27: an awaited query that returns has the result shape of the statement
\* it built and submitted, on the host-ORM path and on the native async
\* path, whatever chain calls another task made on the builder while the
\* execution was suspended.
C27_ShapeOfOwnStatement ==
    (last.op = "await" /\ last.raised = "none") =>
        last.result = last.built_shape

\* --------------------------------------------- the database of a builder
\* a second connection of the host ORM: connections["replica"]
DjangoReplica ==
    Handle("django:replica", DjangoDefault.module, DjangoDefault.class,
           {"vendor", "alias", "cursor"}, "replica")

InitAlias == \E conn \in {DjangoDefault, DjangoReplica} : Start(conn)

NextAlias ==
    \/ select(<<>>)
    \/ \E table \in Tables : from_(table)
    \/ insert(users)
    \/ \E data \in ExecValuesArgs : values(data)
    \/ returning(<<>>)
    \/ \E value \in BOOLEAN : as_model(value)
    \/ \E driver \in DriverOutcomes : _execute(driver)
    \/ \E driver \in DriverOutcomes : _aexecute(driver)

SpecAlias == InitAlias /\ [][NextAlias]_vars

\* the alias of the host-ORM connection with a given id
AliasOfConnection(id) ==
    (CHOOSE conn \in {DjangoDefault, DjangoReplica} : conn.id = id).alias

\* C28: on a builder constructed with a host-ORM handle of alias A, every
\* statement of a sync call and of an await is submitted on a connection of
\* alias A, and the alias model instances are tagged with (get_db_alias) is
\* the alias of the connection that ran the statement.
C28_RunsOnBuildersDatabase ==
    (/\ last.op \in {"call", "await"}
     /\ self.conn_adapter.conn_type = "django") =>
        \A i \in 1..Len(last.submitted) :
            /\ AliasOfConnection(last.submitted[i].on) = self.conn.alias
            /\ get_db_alias(self.conn_adapter)
                  = AliasOfConnection(last.submitted[i].on)

\* --------------------------------------------- a rejected values or set
\* C29: a values() or set() call that raises, whether the type-mismatch
\* error or the error for an argument that is no mapping, leaves every
\* attribute of the builder as it was before the call, the stored insert
\* rows and update assignments included.
C29_RejectedCallLeavesBuilder ==
    [][(last'.op \in {"values", "set"} /\ last'.raised # "none") =>
          self' = self]_vars

\* the tables whose columns a select may use: the FROM table and the
\* tables of its joins
TablesInScope(q) ==
    {q._table} \cup {q._joins[i][2] : i \in 1..Len(q._joins)}

\* C30: in a select with at least one join, where-conditions and order-by
\* targets on columns of the FROM table or of a joined table build without
\* an unknown-column error, whether or not the FROM table has a column of
\* that name; a where-condition on a column of a table that is neither the
\* FROM table nor joined is rejected with the unknown-column error.
C30_JoinedColumnsInScope ==
    (/\ last.op = "build"
     /\ self._query_type = "select"
     /\ Truthy(self._table)) =>
        /\ (/\ Len(self._joins) > 0
            /\ UsedColumns(self)
                  \subseteq UNION {ColumnsOf(t) : t \in TablesInScope(self)})
              => last.raised # "InvalidColumnError"
        /\ (\E i \in 1..Len(self._conditions) :
               ConditionColumns(self._conditions[i])
                  \cap UNION {ColumnsOf(t) : t \in TablesInScope(self)} = {})
              => last.raised = "InvalidColumnError"

=============================================================================
